---- MODULE Spec2Model ----
(***************************************************************************)
(* Snekdown parser: the reversible character cursor (parser/charstate.rs), *)
(* the block productions (parser/block.rs), the parser object and its      *)
(* import bookkeeping (parser/mod.rs).                                     *)
(*                                                                         *)
(* Characters are short strings, a text is a sequence of them.             *)
(* Rust indices are 0-based: text.get(i) is text[i + 1] here.              *)
(* Option<T> is a sequence of length at most one: None = <<>>.             *)
(***************************************************************************)
EXTENDS Integers, Sequences, FiniteSets, TLC

VARIABLES
    parser,           \* the Parser struct (parser/mod.rs:19-36) plus two auxiliary flags
    overflow_checks,  \* build profile: TRUE = arithmetic overflow panics, FALSE = it wraps
    position,         \* a cursor position a caller has recorded (let start_index = self.index)
    lastOp,           \* auxiliary: the operation that produced this state and its result
    pc,               \* where Parser::parse stands: "loop", "join", "done", "panicked"
    list,             \* the locals of parse_list while it assembles the item hierarchy
    scheduler,        \* the import scheduler: parser threads, shared paths, wait-groups, anchors
    render            \* the renderer: an element of a document and the result of its to_html

vars == <<parser, overflow_checks, position, lastOp, pc, list, scheduler, render>>

----------------------------------------------------------------------------
(* Bounds of the model *)

MaxBody == 3          \* longest enumerated source body, in characters
MaxPastEnd == 1       \* how far past the end of the text the index is driven
MaxLines == 3         \* longest enumerated document, in lines
MaxItems == 4         \* longest enumerated list, in items
MaxLevel == 2         \* deepest enumerated indentation of a list item

----------------------------------------------------------------------------
(* Tokens (crate::elements::tokens) *)

LB == "\n"
SPECIAL_ESCAPE == "\\"
BACKTICK == "BT"     \* the backtick character
SQ_CODE_BLOCK == <<BACKTICK, BACKTICK, BACKTICK>>
HASH == "#"
MINUS == "-"
PIPE == "|"
QUOTE_START == ">"
META_OPEN == "["
META_CLOSE == "]"
IMPORT_START == "<"
IMPORT_OPEN == "["
IMPORT_CLOSE == "]"
LIST_SPECIAL_CHARS == {"-", "*", "+"}
\* the openings that end a paragraph when they start a line
BLOCK_SPECIAL_CHARS ==
    << <<HASH>>, <<MINUS>>, SQ_CODE_BLOCK, <<PIPE>>, <<QUOTE_START>>,
       <<META_OPEN, META_OPEN>>, <<IMPORT_START, IMPORT_OPEN>> >>

U8_MAX == 255         \* u8::MAX: section sizes are u8

BatchLines == 8       \* lines read per refill: for _ in 0..8

None == <<>>
Some(x) == <<x>>

\* char::is_whitespace on the characters of the model's alphabet
is_whitespace(c) == c \in {" ", "\n", "\t"}

Min(a, b) == IF a < b THEN a ELSE b

----------------------------------------------------------------------------
(* The line reader: `reader` is the sequence of lines not yet read.        *)

RECURSIVE Flatten(_)
Flatten(lines) ==
    IF lines = <<>> THEN <<>> ELSE Head(lines) \o Flatten(Tail(lines))

\* The lines of a source, each ending with its LB (BufRead::read_line).
RECURSIVE SplitLines(_, _)
SplitLines(src, cur) ==
    IF src = <<>> THEN (IF cur = <<>> THEN <<>> ELSE <<cur>>)
    ELSE IF Head(src) = LB THEN <<Append(cur, LB)>> \o SplitLines(Tail(src), <<>>)
    ELSE SplitLines(Tail(src), Append(cur, Head(src)))

\* the value of Body at e, with e evaluated once
With(e, Body(_)) == CHOOSE r \in {Body(x) : x \in {e}} : TRUE

\* read_lines with the lines read replacing the buffer instead of extending it
read_lines_overwrite(p) ==
    [p EXCEPT !.text = Flatten(SubSeq(p.reader, 1, Min(BatchLines, Len(p.reader)))),
              !.reader = SubSeq(p.reader, Min(BatchLines, Len(p.reader)) + 1,
                                Len(p.reader))]

\* for _ in 0..8 { reader.read_line(&mut buf); text.append(buf.chars()) }
\* read_line at the end of the input appends nothing.
read_lines(p) ==
    [p EXCEPT !.text = @ \o Flatten(SubSeq(p.reader, 1, Min(BatchLines, Len(p.reader)))),
              !.reader = SubSeq(p.reader, Min(BatchLines, Len(p.reader)) + 1,
                                Len(p.reader))]

\* Document::new(is_root)
Document(is_root) == [elements |-> <<>>, is_root |-> is_root]

\* Parser::create for a reader over `src`; `paths` is the content of the
\* shared vector of seen paths, which create extends with its own path.
create(path, paths, is_child, src) ==
    With(read_lines([text |-> <<>>, reader |-> SplitLines(src, <<>>)]), LAMBDA p0 :
        [index |-> 0,
         text |-> p0.text,
         current_char |-> IF Len(p0.text) > 0 THEN p0.text[1] ELSE " ",
         sections |-> <<>>,
         section_nesting |-> 0,
         section_return |-> None,
         path |-> path,
         paths |-> IF path # None THEN Append(paths, path[1]) ELSE paths,
         is_child |-> is_child,
         previous_char |-> " ",
         block_break_at |-> {},
         document |-> Document(~is_child),
         reader |-> p0.reader,
         panicked |-> FALSE,             \* auxiliary: the thread has panicked
         revert_err_dropped |-> FALSE,   \* auxiliary: a revert_to error was discarded
         spawned |-> <<>>,               \* auxiliary: the paths workers were spawned for
         tried |-> <<>>,                 \* auxiliary: alternatives parse_block has tried
         trace |-> <<>>])                \* auxiliary: the parse_block calls of this step

----------------------------------------------------------------------------
(* CharStateMachine for Parser (parser/charstate.rs)                       *)

\* (self.text.len() - 1) <= self.index, in usize: with an empty text the
\* subtraction overflows; where it wraps, usize::MAX exceeds every index.
len_minus_one_leq(p) ==
    IF Len(p.text) = 0 THEN FALSE ELSE Len(p.text) - 1 <= p.index

next_char(p) ==
    IF p.panicked THEN [p |-> p, ret |-> None]
    ELSE With([p EXCEPT !.index = @ + 1, !.previous_char = p.current_char], LAMBDA p1 :
        IF Len(p1.text) = 0 /\ overflow_checks
        THEN [p |-> [p1 EXCEPT !.panicked = TRUE], ret |-> None]
        ELSE With(IF len_minus_one_leq(p1) THEN read_lines(p1) ELSE p1, LAMBDA p2 :
            IF p2.index < Len(p2.text)
            THEN [p |-> [p2 EXCEPT !.current_char = p2.text[p2.index + 1]],
                  ret |-> Some(p2.text[p2.index + 1])]
            ELSE [p |-> p2, ret |-> None]))

skip_char(p) == next_char(p).p

\* Result<(), ParseError>: ok, or the error with its index
revert_to(p, index) ==
    IF p.panicked THEN [p |-> p, ok |-> FALSE, err_index |-> index]
    ELSE IF index < Len(p.text)
    THEN [p |-> [p EXCEPT !.index = index,
                          !.current_char = p.text[index + 1],
                          \* if index > self.text.len(): false for every index
                          \* that text.get accepted
                          !.previous_char = IF index > Len(p.text)
                                               /\ index - 1 < Len(p.text)
                                            THEN p.text[index] ELSE @],
          ok |-> TRUE, err_index |-> 0]
    ELSE [p |-> p, ok |-> FALSE, err_index |-> index]

\* returns the ParseError: the revert's error if the revert failed
revert_with_error(p, index) ==
    With(revert_to(p, index), LAMBDA r :
        [p |-> r.p,
         err_index |-> IF r.ok THEN p.index ELSE r.err_index,
         revert_failed |-> ~r.ok])

check_escaped(p) ==
    IF p.index = 0 THEN FALSE
    ELSE p.previous_char = SPECIAL_ESCAPE

check_special(p, character) ==
    p.current_char = character /\ ~check_escaped(p)

\* `chars` is a set of characters
check_special_group(p, chars) ==
    p.current_char \in chars /\ ~check_escaped(p)

check_linebreak(p) ==
    p.current_char = LB /\ ~check_escaped(p)

\* while let Some(next_char) = self.next_char() { if ... { break } }
RECURSIVE seek_ws_loop(_, _)
seek_ws_loop(p, inline) ==
    With(next_char(p), LAMBDA n :
        IF n.ret = None THEN n.p
        ELSE IF ~is_whitespace(n.ret[1]) \/ (inline /\ check_linebreak(n.p)) THEN n.p
        ELSE seek_ws_loop(n.p, inline))

seek_inline_whitespace(p) ==
    IF ~p.panicked /\ is_whitespace(p.current_char) /\ ~check_linebreak(p)
    THEN seek_ws_loop(p, TRUE)
    ELSE p

seek_whitespace(p) ==
    IF ~p.panicked /\ is_whitespace(p.current_char)
    THEN seek_ws_loop(p, FALSE)
    ELSE p

\* result of `let _ = self.revert_to(i)`: the error, if any, is discarded
drop_revert(p, i) ==
    With(revert_to(p, i), LAMBDA r :
        IF p.panicked \/ r.ok THEN r.p ELSE [r.p EXCEPT !.revert_err_dropped = TRUE])

\* result of `self.revert_to(i).unwrap()`
unwrap_revert(p, i) ==
    With(revert_to(p, i), LAMBDA r :
        IF p.panicked \/ r.ok THEN r.p ELSE [r.p EXCEPT !.panicked = TRUE])

\* for sq_character in sequence { ... }
RECURSIVE css_loop(_, _, _)
css_loop(p, sequence, start_index) ==
    IF sequence = <<>> THEN [p |-> p, ret |-> TRUE]
    ELSE IF p.current_char # Head(sequence)
    THEN [p |-> drop_revert(p, start_index), ret |-> FALSE]
    ELSE With(next_char(p), LAMBDA n :
        IF n.ret = None
        THEN [p |-> drop_revert(n.p, start_index), ret |-> FALSE]
        ELSE css_loop(n.p, Tail(sequence), start_index))

check_special_sequence(p, sequence) ==
    IF p.panicked THEN [p |-> p, ret |-> FALSE]
    ELSE IF check_escaped(p)
    THEN [p |-> unwrap_revert(p, p.index), ret |-> FALSE]
    ELSE With(css_loop(p, sequence, p.index), LAMBDA l :
        IF ~l.ret \/ l.p.panicked THEN [p |-> l.p, ret |-> FALSE]
        ELSE IF l.p.index > 0
        THEN [p |-> unwrap_revert(l.p, l.p.index - 1), ret |-> TRUE]
        ELSE [p |-> l.p, ret |-> TRUE])

RECURSIVE check_special_sequence_group(_, _)
check_special_sequence_group(p, sequences) ==
    IF sequences = <<>> THEN [p |-> p, ret |-> FALSE]
    ELSE With(check_special_sequence(p, Head(sequences)), LAMBDA r :
        IF r.ret THEN r
        ELSE check_special_sequence_group(r.p, Tail(sequences)))

check_eof(p) ==
    IF Len(p.text) = 0 THEN ~overflow_checks   \* usize::MAX: the index is never above it
    ELSE p.index >= Len(p.text) - 1

\* Err(self.revert_with_error(revert_index)) of the assert_* operations
assert_failed(p, revert_index) ==
    With(revert_with_error(p, revert_index), LAMBDA e :
        [p |-> e.p, ok |-> FALSE, err_index |-> e.err_index,
         revert_failed |-> e.revert_failed])

assert_special_sequence(p, sequence, revert_index) ==
    With(check_special_sequence(p, sequence), LAMBDA r :
        IF r.ret THEN [p |-> r.p, ok |-> TRUE, err_index |-> 0, revert_failed |-> FALSE]
        ELSE assert_failed(r.p, revert_index))

assert_special_sequence_group(p, sequences, revert_index) ==
    With(check_special_sequence_group(p, sequences), LAMBDA r :
        IF r.ret THEN [p |-> r.p, ok |-> TRUE, err_index |-> 0, revert_failed |-> FALSE]
        ELSE assert_failed(r.p, revert_index))

\* the end of get_string_until and get_string_until_sequence:
\* the error is returned from where the scan has stopped
gsu_end_without_revert(l, err_at, start_index) ==
    IF check_special_group(l.p, err_at)
    THEN [p |-> l.p, ok |-> FALSE, str |-> <<>>, err_index |-> l.p.index]
    ELSE [p |-> l.p, ok |-> TRUE, str |-> l.str, err_index |-> 0]

\* if self.check_special_group(err_at) { Err(self.revert_with_error(start_index)) }
\* else { Ok(result) }
gsu_end(l, err_at, start_index) ==
    IF check_special_group(l.p, err_at)
    THEN With(revert_with_error(l.p, start_index), LAMBDA e :
        [p |-> e.p, ok |-> FALSE, str |-> <<>>, err_index |-> e.err_index])
    ELSE [p |-> l.p, ok |-> TRUE, str |-> l.str, err_index |-> 0]

\* while let Some(ch) = self.next_char() { if break or err { break }; result.push(ch) }
RECURSIVE gsu_loop(_, _, _, _)
gsu_loop(p, break_at, err_at, result) ==
    With(next_char(p), LAMBDA n :
        IF n.ret = None THEN [p |-> n.p, str |-> result]
        ELSE IF check_special_group(n.p, break_at) \/ check_special_group(n.p, err_at)
        THEN [p |-> n.p, str |-> result]
        ELSE gsu_loop(n.p, break_at, err_at, Append(result, n.ret[1])))

get_string_until(p, break_at, err_at) ==
    IF check_special_group(p, break_at)
    THEN [p |-> p, ok |-> TRUE, str |-> <<>>, err_index |-> 0]
    ELSE IF check_special_group(p, err_at)
    THEN [p |-> p, ok |-> FALSE, str |-> <<>>, err_index |-> p.index]
    ELSE With(gsu_loop(p, break_at, err_at, <<p.current_char>>), LAMBDA l :
        gsu_end(l, err_at, p.index))

RECURSIVE gsus_loop(_, _, _, _)
gsus_loop(p, break_at, err_at, result) ==
    With(next_char(p), LAMBDA n :
        IF n.ret = None THEN [p |-> n.p, str |-> result]
        ELSE With(check_special_sequence_group(n.p, break_at), LAMBDA s :
            IF s.ret \/ check_special_group(s.p, err_at)
            THEN [p |-> s.p, str |-> result]
            ELSE gsus_loop(s.p, break_at, err_at, Append(result, n.ret[1]))))

get_string_until_sequence(p, break_at, err_at) ==
    With(check_special_sequence_group(p, break_at), LAMBDA s :
        IF s.ret
        THEN [p |-> s.p, ok |-> TRUE, str |-> <<>>, err_index |-> 0]
        ELSE IF check_special_group(s.p, err_at)
        THEN [p |-> s.p, ok |-> FALSE, str |-> <<>>, err_index |-> s.p.index]
        ELSE With(gsus_loop(s.p, break_at, err_at, <<s.p.current_char>>), LAMBDA l :
            gsu_end(l, err_at, p.index)))

----------------------------------------------------------------------------
(* parse_code_block (parser/block.rs)                                      *)

\* ParseResult<T>: Ok(value), or Err(ParseError) with the error's index
Ok(p, val) == [p |-> p, ok |-> TRUE, err_index |-> 0, val |-> val]
Err(p, err_index) == [p |-> p, ok |-> FALSE, err_index |-> err_index, val |-> None]

\* Err(self.revert_with_error(index))
ErrRevert(p, index) ==
    With(revert_with_error(p, index), LAMBDA e : Err(e.p, e.err_index))

\* after the opening sequence: language, body, closing sequence
pcb_body(p) ==
    With(get_string_until(skip_char(p), {LB}, {}), LAMBDA l :
        IF ~l.ok THEN Err(l.p, l.err_index)
        ELSE With(get_string_until_sequence(skip_char(l.p), <<SQ_CODE_BLOCK>>, {}),
                  LAMBDA t :
            IF ~t.ok THEN Err(t.p, t.err_index)
            ELSE Ok(skip_char(skip_char(t.p)),
                    [kind |-> "CodeBlock", language |-> l.str, code |-> t.str])))

parse_code_block(p) ==
    With(seek_whitespace(p), LAMBDA p1 :
        With(assert_special_sequence(p1, SQ_CODE_BLOCK, p1.index), LAMBDA a :
            IF ~a.ok THEN Err(a.p, a.err_index)
            ELSE pcb_body(a.p)))

----------------------------------------------------------------------------
(* Line productions (parser/line.rs), as far as the block productions use  *)
(* them. The enumerated sources hold plain text only: no inline markup,    *)
(* no metadata, no escape characters.                                      *)

\* a line of text up to and including its linebreak; fails at the end of input
parse_text_line(p) ==
    IF p.panicked \/ p.index >= Len(p.text) THEN Err(p, p.index)
    ELSE With(get_string_until(p, {LB}, {}), LAMBDA s :
        Ok(IF check_linebreak(s.p) THEN skip_char(s.p) ELSE s.p,
           [kind |-> "TextLine", subtext |-> s.str]))

parse_line(p) == parse_text_line(p)

\* the header's line; parse_section sets its size
parse_header(p) ==
    With(parse_line(p), LAMBDA l :
        IF l.ok THEN Ok(l.p, [kind |-> "Header", size |-> 0, line |-> l.val]) ELSE l)

\* no enumerated source holds metadata: the production fails where it started
parse_inline_metadata(p) == Err(p, p.index)

\* char::is_numeric on the characters of the model's alphabet
is_numeric(c) == c \in {"0", "1", "2", "3", "4", "5", "6", "7", "8", "9"}

\* the marker of a list item with the cursor moved behind it: a bullet of
\* LIST_SPECIAL_CHARS, or a number and a dot
list_marker(p) ==
    IF check_special_group(p, LIST_SPECIAL_CHARS) THEN next_char(p)
    ELSE IF is_numeric(p.current_char) /\ ~check_escaped(p)
    THEN With(next_char(p), LAMBDA d :
            IF d.ret # None /\ check_special(d.p, ".") THEN next_char(d.p)
            ELSE [p |-> d.p, ret |-> None])
    ELSE [p |-> p, ret |-> None]

\* indentation, a marker, inline whitespace, a line; level is the number of
\* whitespace characters before the marker
parse_list_item(p) ==
    With(seek_inline_whitespace(p), LAMBDA p1 :
        IF p1.panicked \/ p1.index >= Len(p1.text)
        THEN ErrRevert(p1, p.index)
        ELSE With(list_marker(p1), LAMBDA n :
            IF n.ret = None \/ ~is_whitespace(n.p.current_char) \/ check_linebreak(n.p)
            THEN ErrRevert(n.p, p.index)
            ELSE With(parse_line(seek_inline_whitespace(n.p)), LAMBDA t :
                IF ~t.ok THEN ErrRevert(t.p, p.index)
                ELSE Ok(t.p, [kind |-> "ListItem", level |-> p1.index - p.index,
                              text |-> t.val, children |-> <<>>]))))

\* a row: a pipe, then the cells up to and including the linebreak
parse_row(p) ==
    With(seek_inline_whitespace(p), LAMBDA p1 :
        IF p1.panicked \/ p1.index >= Len(p1.text) \/ ~check_special(p1, PIPE)
        THEN ErrRevert(p1, p.index)
        ELSE With(get_string_until(skip_char(p1), {LB}, {}), LAMBDA s :
            Ok(IF check_linebreak(s.p) THEN skip_char(s.p) ELSE s.p,
               [kind |-> "Row", cells |-> s.str])))

\* a placeholder alone on its line: [[name]]
parse_placeholder(p) ==
    With(assert_special_sequence(p, <<META_OPEN, META_OPEN>>, p.index), LAMBDA a :
        IF ~a.ok THEN Err(a.p, a.err_index)
        ELSE With(get_string_until(skip_char(a.p), {META_CLOSE}, {LB}), LAMBDA n :
            IF ~n.ok THEN ErrRevert(n.p, p.index)
            ELSE With(assert_special_sequence(n.p, <<META_CLOSE, META_CLOSE>>, p.index),
                      LAMBDA c :
                IF ~c.ok THEN Err(c.p, c.err_index)
                ELSE Ok(skip_char(c.p), [kind |-> "Placeholder", name |-> n.str]))))

----------------------------------------------------------------------------
(* parse_list (parser/block.rs:187-247, and src/parser.rs:206-261)         *)

Last(s) == s[Len(s)]
Front(s) == SubSeq(s, 1, Len(s) - 1)

\* ListItem::add_child
add_child(item, child) == [item EXCEPT !.children = Append(@, child)]

\* list_hierarchy with the item `child` added to its last item:
\* parent_parent = pop().unwrap(); parent_parent.add_child(child); push(parent_parent)
add_to_last(list_hierarchy, child) ==
    Append(Front(list_hierarchy), add_child(Last(list_hierarchy), child))

\* parent_item.level <= item.level in place of parent_item.level < item.level
is_parent_or_sibling(parent_item, item) == parent_item.level <= item.level

\* if parent_item.level < item.level: the popped item is the parent of the next
is_parent(parent_item, item) == parent_item.level < item.level

\* while let Some(parent_item) = list_hierarchy.pop() { ... }
\* yields the item, the hierarchy and the items of the list after the loop
RECURSIVE place_item(_, _, _)
place_item(item, list_hierarchy, items) ==
    IF list_hierarchy = <<>>
    THEN [item |-> item, list_hierarchy |-> <<>>, items |-> items]
    ELSE With(Last(list_hierarchy), LAMBDA parent_item :
         With(Front(list_hierarchy), LAMBDA rest :
            IF is_parent(parent_item, item)
            THEN [item |-> item, list_hierarchy |-> Append(rest, parent_item),
                  items |-> items]
            ELSE IF parent_item.level = item.level
            THEN IF rest = <<>>
                 THEN [item |-> item, list_hierarchy |-> <<>>,
                       items |-> Append(items, parent_item)]
                 ELSE [item |-> item, list_hierarchy |-> add_to_last(rest, parent_item),
                       items |-> items]
            ELSE IF rest = <<>>
                 THEN place_item(add_child(item, parent_item), <<>>, items)
                 ELSE place_item(item, add_to_last(rest, parent_item), items)))

\* one iteration of `while let Ok(mut item) = self.parse_list_item()`
\* for an item read: place it, then list_hierarchy.push(item)
push_item(item, list_hierarchy, items) ==
    With(place_item(item, list_hierarchy, items), LAMBDA r :
        [list_hierarchy |-> Append(r.list_hierarchy, r.item), items |-> r.items])

\* the items above the lowest one of the hierarchy are left out
combine_lowest_only(list_hierarchy) ==
    IF list_hierarchy = <<>> THEN <<>> ELSE <<Head(list_hierarchy)>>

\* "the remaining items in the hierarchy need to be combined"
RECURSIVE combine(_)
combine(list_hierarchy) ==
    IF Len(list_hierarchy) <= 1 THEN list_hierarchy
    ELSE combine(add_to_last(Front(list_hierarchy), Last(list_hierarchy)))

\* the list is unordered for the bullet MINUS alone
list_ordered_unless_minus(p) == ~check_special(p, MINUS)

\* let ordered = if self.check_special_group(&LIST_SPECIAL_CHARS) { false } else { true }
list_ordered(p) == ~check_special_group(p, LIST_SPECIAL_CHARS)

RECURSIVE list_loop(_, _, _)
list_loop(p, list_hierarchy, items) ==
    With(parse_list_item(p), LAMBDA i :
        IF ~i.ok THEN [p |-> i.p, list_hierarchy |-> list_hierarchy, items |-> items]
        ELSE With(push_item(i.val, list_hierarchy, items), LAMBDA r :
            list_loop(i.p, r.list_hierarchy, r.items)))

parse_list(p) ==
    With(seek_whitespace(p), LAMBDA p1 :
        With(list_loop(p1, <<>>, <<>>), LAMBDA l :
            With(l.items \o combine(l.list_hierarchy), LAMBDA items :
                IF Len(items) > 0
                THEN Ok(l.p, [kind |-> "List", ordered |-> list_ordered(p1),
                              items |-> items])
                ELSE ErrRevert(l.p, p.index))))

----------------------------------------------------------------------------
(* parse_table, parse_quote, parse_paragraph (parser/block.rs)             *)

\* while let Some(_) = self.next_char() { seek_inline_whitespace; if ... break }
RECURSIVE separator_loop(_)
separator_loop(p) ==
    With(next_char(p), LAMBDA n :
        IF n.ret = None THEN n.p
        ELSE With(seek_inline_whitespace(n.p), LAMBDA w :
            IF ~check_special_group(w, {MINUS, PIPE}) \/ check_linebreak(w) THEN w
            ELSE separator_loop(w)))

\* while let Ok(row) = self.parse_row() { table.add_row(row) }
RECURSIVE rows_loop(_, _)
rows_loop(p, rows) ==
    With(parse_row(p), LAMBDA r :
        IF r.ok THEN rows_loop(r.p, Append(rows, r.val))
        ELSE [p |-> r.p, rows |-> rows])

parse_table(p) ==
    With(parse_row(p), LAMBDA header :
        IF ~header.ok THEN header
        ELSE With(IF check_linebreak(header.p) THEN skip_char(header.p) ELSE header.p,
                  LAMBDA p1 :
            With(separator_loop(p1), LAMBDA p2 :
                IF ~check_linebreak(p2)
                THEN With(revert_to(p2, p1.index), LAMBDA r :
                        IF r.ok
                        THEN Ok(r.p, [kind |-> "Table", header |-> header.val,
                                      rows |-> <<>>])
                        ELSE Err(r.p, r.err_index))
                ELSE With(rows_loop(seek_whitespace(p2), <<>>), LAMBDA b :
                        Ok(b.p, [kind |-> "Table", header |-> header.val,
                                 rows |-> b.rows])))))

\* while check_special(QUOTE_START) && next_char() != None
\*       && (check_seek_inline_whitespace() || check_special(LB)) { ... }
RECURSIVE quote_loop(_, _)
quote_loop(p, text) ==
    IF ~check_special(p, QUOTE_START) THEN [p |-> p, text |-> text]
    ELSE With(next_char(p), LAMBDA n :
        IF n.ret = None THEN [p |-> n.p, text |-> text]
        ELSE With(seek_inline_whitespace(n.p), LAMBDA w :
            IF ~(w.index > n.p.index \/ check_special(w, LB))
            THEN [p |-> w, text |-> text]
            ELSE With(parse_text_line(w), LAMBDA t :
                IF ~t.ok THEN [p |-> t.p, text |-> text]
                ELSE quote_loop(t.p, IF Len(t.val.subtext) > 0
                                     THEN Append(text, t.val) ELSE text))))

parse_quote(p) ==
    With(parse_inline_metadata(seek_whitespace(p)), LAMBDA m :
        With(IF check_special(m.p, META_CLOSE) THEN next_char(m.p)
             ELSE [p |-> m.p, ret |-> Some(m.p.current_char)], LAMBDA n :
            IF n.ret = None THEN ErrRevert(n.p, p.index)
            ELSE With(quote_loop(n.p, <<>>), LAMBDA q :
                IF Len(q.text) = 0 THEN ErrRevert(q.p, p.index)
                ELSE Ok(q.p, [kind |-> "Quote", metadata |-> None, text |-> q.text]))))

\* while let Ok(token) = self.parse_line() { ... }; failed: a revert_to(..)? returned
RECURSIVE paragraph_loop(_, _)
paragraph_loop(p, elements) ==
    With(parse_line(p), LAMBDA t :
        IF ~t.ok THEN [p |-> t.p, elements |-> elements, failed |-> None]
        ELSE With(check_special_sequence_group(t.p, BLOCK_SPECIAL_CHARS), LAMBDA c :
            IF c.ret \/ check_special_group(c.p, c.p.block_break_at)
            THEN With(revert_to(c.p, t.p.index), LAMBDA r :
                    [p |-> r.p, elements |-> Append(elements, t.val),
                     failed |-> IF r.ok THEN None ELSE Some(r.err_index)])
            ELSE IF ~check_eof(c.p)
            THEN With(revert_to(c.p, t.p.index), LAMBDA r :
                    IF r.ok THEN paragraph_loop(r.p, Append(elements, t.val))
                    ELSE [p |-> r.p, elements |-> Append(elements, t.val),
                          failed |-> Some(r.err_index)])
            ELSE paragraph_loop(c.p, Append(elements, t.val))))

parse_paragraph(p) ==
    With(paragraph_loop(seek_whitespace(p), <<>>), LAMBDA l :
        IF l.failed # None THEN Err(l.p, l.failed[1])
        ELSE IF Len(l.elements) > 0
        THEN Ok(l.p, [kind |-> "Paragraph", elements |-> l.elements])
        ELSE Err(l.p, l.p.index))

----------------------------------------------------------------------------
(* Imports (parser/mod.rs:151-213, parser/block.rs:278-311)                *)

\* the files that exist, by their physical path; a path is the sequence of
\* its characters. "g" is no file.
ExistingFiles ==
    { <<"f">>, <<"c">>, <<"a">>, <<"m">>, <<"6">>, <<"7">>, <<"s", "/", "e">>, <<"x">>, <<"p">>, <<"q">>,
      <<"1">>, <<"2">>, <<"3">>, <<"4">>, <<"5">> }

\* the components of a path: the names between its separators
RECURSIVE Components(_, _)
Components(path, name) ==
    IF path = <<>> THEN (IF name = <<>> THEN <<>> ELSE <<name>>)
    ELSE IF Head(path) = "/"
    THEN (IF name = <<>> THEN <<>> ELSE <<name>>) \o Components(Tail(path), <<>>)
    ELSE Components(Tail(path), Append(name, Head(path)))

\* the components left when every ".." has taken back the name before it
RECURSIVE Resolve(_, _)
Resolve(components, stack) ==
    IF components = <<>> THEN stack
    ELSE IF Head(components) = <<".", ".">>
    THEN Resolve(Tail(components),
                 IF stack = <<>> THEN <<>> ELSE SubSeq(stack, 1, Len(stack) - 1))
    ELSE Resolve(Tail(components), Append(stack, Head(components)))

RECURSIVE JoinComponents(_)
JoinComponents(components) ==
    IF components = <<>> THEN <<>>
    ELSE IF Len(components) = 1 THEN Head(components)
    ELSE Head(components) \o <<"/">> \o JoinComponents(Tail(components))

\* the physical path the file system resolves a relative path to
Phys(path) == JoinComponents(Resolve(Components(path, <<>>), <<>>))

\* path.exists() && path.is_file()
exists(path) == Phys(path) \in ExistingFiles

\* PathBuf::parent of a relative path, with the separator: "" for a bare name
RECURSIVE Dir(_)
Dir(path) ==
    IF path = <<>> THEN <<>>
    ELSE IF Last(path) = "/" THEN path
    ELSE Dir(Front(path))

transform_path(p, path) ==
    IF (path = <<>> \/ Head(path) # "/") /\ p.path # None
    THEN Dir(p.path[1]) \o path
    ELSE path

\* The lock on the shared paths is held from the lookup to the push. The
\* worker spawned for the path is recorded in `spawned`.
import_document(p, path) ==
    With(transform_path(p, path), LAMBDA full :
        IF ~exists(full) THEN Err(p, p.index)
        ELSE IF \E i \in 1..Len(p.paths) : p.paths[i] = full THEN Err(p, p.index)
        ELSE Ok([p EXCEPT !.paths = Append(@, full), !.spawned = Append(@, full)],
                [kind |-> "ImportAnchor", worker |-> Len(p.spawned) + 1]))

\* while let Some(character) = self.next_char() { if ... { break }; path.push(character) }
RECURSIVE import_path_loop(_, _)
import_path_loop(p, path) ==
    With(next_char(p), LAMBDA n :
        IF n.ret = None THEN [p |-> n.p, str |-> path]
        ELSE IF check_linebreak(n.p) \/ check_special(n.p, IMPORT_CLOSE)
        THEN [p |-> n.p, str |-> path]
        ELSE import_path_loop(n.p, Append(path, n.ret[1])))

\* the import is refused without the signal that unwinds the open sections
import_in_section_silent(p, start_index) ==
    With(revert_to(p, start_index), LAMBDA r :
        Err(r.p, IF r.ok THEN p.index ELSE r.err_index))

\* if self.section_nesting > 0 { self.section_return = Some(0); ...
\*     self.revert_to(start_index)?; return Err(err) }
import_in_section(p, start_index) ==
    With(revert_to([p EXCEPT !.section_return = Some(0)], start_index), LAMBDA r :
        Err(r.p, IF r.ok THEN p.index ELSE r.err_index))

parse_import(p) ==
    With(assert_special_sequence_group(seek_whitespace(p),
                                       <<<<IMPORT_START, IMPORT_OPEN>>>>, p.index),
         LAMBDA a :
        IF ~a.ok THEN Err(a.p, a.err_index)
        ELSE With(import_path_loop(a.p, <<>>), LAMBDA l :
            IF check_linebreak(l.p) \/ l.str = <<>> THEN ErrRevert(l.p, p.index)
            ELSE With(IF check_special(l.p, IMPORT_CLOSE) THEN skip_char(l.p) ELSE l.p,
                      LAMBDA p2 :
                IF p2.section_nesting > 0 THEN import_in_section(p2, p.index)
                ELSE With(import_document(seek_whitespace(p2), l.str), LAMBDA d :
                    IF d.ok
                    THEN Ok(d.p, [kind |-> "Import", path |-> l.str, anchor |-> d.val])
                    ELSE Err(d.p, d.p.index)))))

----------------------------------------------------------------------------
(* parse_block and parse_section (parser/block.rs:22-105)                  *)

\* if let Some(section) = self.section_return {
\*     if section <= self.section_nesting && (self.section_nesting > 0) { return Err }
return_pending(p) ==
    /\ p.section_return # None
    /\ p.section_return[1] <= p.section_nesting
    /\ p.section_nesting > 0

\* the result r of the alternative `name`, noted in the auxiliary `tried`
Tried(r, name) == [r EXCEPT !.p.tried = Append(@, <<name, r.ok>>)]

\* the same for the first alternative: its nested calls have used `tried`
TriedFirst(r, name) == [r EXCEPT !.p.tried = << <<name, r.ok>> >>]

\* the call of parse_block entered with parser p and returning r, appended
\* to the auxiliary `trace`
Traced(p, r) ==
    [r EXCEPT !.p.trace = Append(@, [section_nesting |-> p.section_nesting,
                                     sections |-> p.sections,
                                     index |-> p.index,
                                     pending |-> return_pending(p),
                                     tried |-> r.p.tried,
                                     ok |-> r.ok,
                                     kind |-> IF r.ok THEN r.val.kind ELSE "Err",
                                     section_return |-> r.p.section_return])]

\* while let Some(_) = self.next_char() { if !check_special(HASH) { break }; size += 1 }
\* size is a u8: past U8_MAX the addition panics or wraps with the build
\* one turn of the loop; `more` tells whether the loop goes on
hash_step(p, size) ==
    With(next_char(p), LAMBDA n :
        IF n.ret = None \/ ~check_special(n.p, HASH)
        THEN [p |-> n.p, size |-> size, more |-> FALSE]
        ELSE IF size = U8_MAX
        THEN IF overflow_checks
             THEN [p |-> [n.p EXCEPT !.panicked = TRUE], size |-> size, more |-> FALSE]
             ELSE [p |-> n.p, size |-> 0, more |-> TRUE]
        ELSE [p |-> n.p, size |-> size + 1, more |-> TRUE])

RECURSIVE hash_loop(_, _)
hash_loop(p, size) ==
    With(hash_step(p, size), LAMBDA h :
        IF h.more THEN hash_loop(h.p, h.size) ELSE [p |-> h.p, size |-> h.size])

\* the header is refused on its missing whitespace alone
section_rejected_any_size(p, size) == ~is_whitespace(p.current_char)

\* if size <= self.section_nesting || !self.current_char.is_whitespace()
section_rejected(p, size) ==
    size <= p.section_nesting \/ ~is_whitespace(p.current_char)

\* the nesting of a closed section is its size less one (src/parser.rs:172)
close_section_decrement(p) ==
    [p EXCEPT !.sections = Front(@),
              !.section_nesting = IF @ > 0 THEN @ - 1 ELSE 0]

\* self.sections.pop(); section_nesting = *sections.last() or 0
close_section(p) ==
    [p EXCEPT !.sections = Front(@),
              !.section_nesting = IF Len(p.sections) > 1
                                  THEN p.sections[Len(p.sections) - 1] ELSE 0]

\* placeholder and paragraph tried in the opposite order
pb_after_import_swapped(p) ==
    IF p.section_return # None THEN Err(p, p.index)
    ELSE With(Tried(parse_paragraph(p), "paragraph"), LAMBDA g :
        IF g.ok THEN g
        ELSE With(Tried(parse_placeholder(g.p), "placeholder"), LAMBDA h :
            IF h.ok THEN h ELSE Err(h.p, h.p.index)))

\* parse_block from the check that follows parse_import
pb_after_import(p) ==
    IF p.section_return # None THEN Err(p, p.index)
    ELSE With(Tried(parse_placeholder(p), "placeholder"), LAMBDA h :
        IF h.ok THEN h
        ELSE With(Tried(parse_paragraph(h.p), "paragraph"), LAMBDA g :
            IF g.ok THEN g ELSE Err(g.p, g.p.index)))

\* parse_block from parse_list to parse_import
pb_after_section(p) ==
    With(Tried(parse_list(p), "list"), LAMBDA l :
    IF l.ok THEN l ELSE
    With(Tried(parse_table(l.p), "table"), LAMBDA t :
    IF t.ok THEN t ELSE
    With(Tried(parse_code_block(t.p), "code_block"), LAMBDA c :
    IF c.ok THEN c ELSE
    With(Tried(parse_quote(c.p), "quote"), LAMBDA q :
    IF q.ok THEN q ELSE
    With(Tried(parse_import(q.p), "import"), LAMBDA i :
    IF i.ok THEN i ELSE pb_after_import(i.p))))))

RECURSIVE parse_block(_)
RECURSIVE parse_section(_)
RECURSIVE section_loop(_, _)

parse_block(p) ==
    IF return_pending(p) THEN Traced(p, Err([p EXCEPT !.tried = <<>>], p.index))
    ELSE With(TriedFirst(parse_section([p EXCEPT !.section_return = None]), "section"),
              LAMBDA s :
        Traced(p, IF s.ok THEN s
                  ELSE IF s.p.section_return # None THEN Err(s.p, s.p.index)
                  ELSE pb_after_section(s.p)))

\* while let Ok(block) = self.parse_block() { section.add_element(block) }
section_loop(p, elements) ==
    With(parse_block(p), LAMBDA b :
        IF b.ok THEN section_loop(b.p, Append(elements, b.val))
        ELSE [p |-> b.p, elements |-> elements])

\* the size becomes the nesting and is not pushed on the stack
open_section_without_push(p, size) == [p EXCEPT !.section_nesting = size]

\* self.section_nesting = size; self.sections.push(size);
open_section(p, size) ==
    [p EXCEPT !.section_nesting = size, !.sections = Append(@, size)]

\* parse_section from parse_header on, for a header of the accepted size
section_body(p, size) ==
    With(parse_header(seek_inline_whitespace(p)), LAMBDA header :
        IF ~header.ok THEN header
        ELSE With(section_loop(seek_whitespace(open_section(header.p, size)), <<>>),
                  LAMBDA body :
            Ok(close_section(body.p),
               [kind |-> "Section",
                header |-> [header.val EXCEPT !.size = size],
                elements |-> body.elements])))

\* parse_section behind the loop over the hashes, for the cursor p, the
\* size counted and the start_index of the call
section_after_hashes(p, size, start_index) ==
    With(parse_inline_metadata(p), LAMBDA m :
        IF m.p.panicked THEN Err(m.p, m.p.index)
        ELSE IF section_rejected(m.p, size)
        THEN ErrRevert(IF size <= m.p.section_nesting
                       THEN [m.p EXCEPT !.section_return = Some(size)]
                       ELSE m.p, start_index)
        ELSE section_body(m.p, size))

parse_section(p) ==
    With(seek_whitespace(p), LAMBDA p1 :
        IF ~check_special(p1, HASH) THEN ErrRevert(p1, p.index)
        ELSE With(hash_loop(p1, 1), LAMBDA h :
            section_after_hashes(h.p, h.size, p.index)))

----------------------------------------------------------------------------
(* The cursor as a state machine: a caller applies the cursor operations   *)
(* in any order to a parser created over any of the enumerated sources.    *)

Alphabet == {"a", " ", LB, SPECIAL_ESCAPE, BACKTICK}

Bodies == UNION {[1..k -> Alphabet] : k \in 0..MaxBody}

\* BatchLines empty lines: what follows them is read by the first refill
Pad == [i \in 1..BatchLines |-> LB]

CodeSources ==
    { SQ_CODE_BLOCK \o <<"a", LB, "a", LB>> \o SQ_CODE_BLOCK,
      SQ_CODE_BLOCK \o <<"a", LB, "a", LB>> \o SQ_CODE_BLOCK \o <<LB>>,
      <<" ">> \o SQ_CODE_BLOCK \o <<"a">> }

\* sources longer than one batch of lines
LongSources == {Pad \o b : b \in UNION {[1..k -> Alphabet] : k \in 0..1}}

Sources == Bodies \cup LongSources \cup CodeSources

\* the cursor operations are applied while the index is at most this
MaxIndex(p) == Len(p.text) + MaxPastEnd

TestSequences == {SQ_CODE_BLOCK, <<BACKTICK>>}

Op(name, arg, ok, err_index) ==
    [op |-> name, arg |-> arg, ok |-> ok, err_index |-> err_index]

Fresh(p) == [p EXCEPT !.revert_err_dropped = FALSE, !.tried = <<>>, !.trace = <<>>]

\* no import is under way
NoScheduler == [state |-> "none"]

\* nothing is rendered
NoRender == [state |-> "none"]

\* parse_list is not running
NoList == [levels |-> <<>>, next |-> 0, list_hierarchy |-> <<>>, items |-> <<>>,
           state |-> "none"]

\* The cursor operations overflow only on an empty text (len() - 1), so the
\* two build profiles are told apart for the empty source alone.
InitCursor ==
    /\ \E src \in Sources :
         /\ parser = create(None, <<>>, FALSE, src)
         /\ overflow_checks \in (IF src = <<>> THEN BOOLEAN ELSE {TRUE})
    /\ position = None
    /\ lastOp = Op("create", 0, TRUE, 0)
    /\ pc = "cursor"
    /\ list = NoList
    /\ scheduler = NoScheduler
    /\ render = NoRender

NextChar ==
    /\ ~parser.panicked /\ parser.index < MaxIndex(parser)
    /\ \E n \in {next_char(Fresh(parser))} :
          /\ parser' = n.p
          /\ lastOp' = Op("next_char", 0, n.ret # None, 0)
    /\ UNCHANGED <<overflow_checks, position, pc, list, scheduler, render>>

SkipChar ==
    /\ ~parser.panicked /\ parser.index < MaxIndex(parser)
    /\ parser' = skip_char(Fresh(parser))
    /\ lastOp' = Op("skip_char", 0, TRUE, 0)
    /\ UNCHANGED <<overflow_checks, position, pc, list, scheduler, render>>

\* let start_index = self.index
RecordPosition ==
    /\ ~parser.panicked
    /\ position # Some(parser.index)
    /\ position' = Some(parser.index)
    /\ lastOp' = Op("position", parser.index, TRUE, 0)
    /\ UNCHANGED <<parser, overflow_checks, pc, list, scheduler, render>>

RevertTo ==
    /\ ~parser.panicked
    /\ \E i \in 0..MaxIndex(parser) :
         \E r \in {revert_to(Fresh(parser), i)} :
            /\ parser' = r.p
            /\ lastOp' = Op("revert_to", i, r.ok, r.err_index)
    /\ UNCHANGED <<overflow_checks, position, pc, list, scheduler, render>>

CheckSpecialSequence ==
    /\ ~parser.panicked /\ parser.index < MaxIndex(parser)
    /\ \E sq \in TestSequences :
         \E r \in {check_special_sequence(Fresh(parser), sq)} :
            /\ parser' = r.p
            /\ lastOp' = Op("check_special_sequence", Len(sq), r.ret, 0)
    /\ UNCHANGED <<overflow_checks, position, pc, list, scheduler, render>>

ParseCodeBlock ==
    /\ ~parser.panicked /\ parser.index < MaxIndex(parser)
    /\ \E r \in {parse_code_block(Fresh(parser))} :
          /\ parser' = r.p
          /\ lastOp' = Op("parse_code_block", 0, r.ok, r.err_index)
    /\ UNCHANGED <<overflow_checks, position, pc, list, scheduler, render>>

NextCursor ==
    \/ NextChar
    \/ SkipChar
    \/ RecordPosition
    \/ RevertTo
    \/ CheckSpecialSequence
    \/ ParseCodeBlock

SpecCursor == InitCursor /\ [][NextCursor]_vars

\* The cursor driven by next_char, skip_char and revert_to alone
NextSeek ==
    \/ NextChar
    \/ SkipChar
    \/ RecordPosition
    \/ RevertTo

SpecSeek == InitCursor /\ [][NextSeek]_vars

----------------------------------------------------------------------------
(* Parser::parse (parser/mod.rs:216-265) as a state machine: one step per  *)
(* iteration of its loop, over documents put together from a menu of lines *)

Header(size) == [i \in 1..size |-> HASH] \o <<" ", "a", LB>>
TextLn == <<"a", LB>>
ImportLn(file) == <<IMPORT_START, IMPORT_OPEN, file, IMPORT_CLOSE, LB>>

\* the lines sections are built from
CoreLines == {Header(1), Header(2), Header(3), TextLn, ImportLn("f")}

\* one line or group of lines for each alternative of parse_block, a hash
\* run that is no header, an import of a missing file
OtherLines ==
    { <<MINUS, " ", "a", LB>>,
      <<PIPE, "a", PIPE, LB>>,
      SQ_CODE_BLOCK \o <<LB, "a", LB>> \o SQ_CODE_BLOCK \o <<LB>>,
      <<QUOTE_START, " ", "a", LB>>,
      <<META_OPEN, META_OPEN, "a", META_CLOSE, META_CLOSE, LB>>,
      <<HASH, "a", LB>>,
      ImportLn("g") }

SeqsUpTo(n, S) == UNION {[1..k -> S] : k \in 0..n}

BlockSources ==
    {Flatten(ls) : ls \in SeqsUpTo(MaxLines, CoreLines)}
    \cup {Flatten(ls) : ls \in SeqsUpTo(2, CoreLines \cup OtherLines)}

\* No enumerated document is empty past its first character or holds a hash
\* run longer than a u8 counts, so the two build profiles behave alike.
InitBlock ==
    /\ \E src \in BlockSources : parser = create(None, <<>>, FALSE, src)
    /\ overflow_checks = TRUE
    /\ position = None
    /\ lastOp = Op("create", 0, TRUE, 0)
    /\ pc = "loop"
    /\ list = NoList
    /\ scheduler = NoScheduler
    /\ render = NoRender

\* while self.index < self.text.len() { match self.parse_block() { ... } }
ParseBlockStep ==
    /\ pc = "loop"
    /\ parser.index < Len(parser.text)
    /\ \E r \in {parse_block(Fresh(parser))} :
          /\ parser' = IF r.ok /\ ~r.p.panicked
                       THEN [r.p EXCEPT !.document.elements = Append(@, r.val)]
                       ELSE r.p
          /\ pc' = IF r.p.panicked THEN "panicked"
                   ELSE IF r.ok THEN "loop" ELSE "join"
          /\ lastOp' = Op("parse_block", parser.index, r.ok, r.err_index)
    /\ UNCHANGED <<overflow_checks, position, list, scheduler, render>>

ParseLoopExit ==
    /\ pc = "loop"
    /\ ~(parser.index < Len(parser.text))
    /\ pc' = "join"
    /\ lastOp' = Op("loop_exit", parser.index, TRUE, 0)
    /\ UNCHANGED <<parser, overflow_checks, position, list, scheduler, render>>

\* wg.wait(); post_process(); the document is returned and a new one put in
\* its place. The workers run on their own: nothing of this parser but the
\* shared paths is theirs to touch.
ParseReturn ==
    /\ pc = "join"
    /\ pc' = "done"
    /\ lastOp' = [op |-> "parse", arg |-> 0, ok |-> TRUE, err_index |-> 0,
                  document |-> parser.document]
    /\ parser' = [parser EXCEPT !.document = Document(~parser.is_child)]
    /\ UNCHANGED <<overflow_checks, position, list, scheduler, render>>

NextBlock ==
    \/ ParseBlockStep
    \/ ParseLoopExit
    \/ ParseReturn

SpecBlock == InitBlock /\ [][NextBlock]_vars

----------------------------------------------------------------------------
(* parse_list as a state machine over the levels of the items it reads     *)

Item(id, level) ==
    [kind |-> "ListItem", level |-> level, text |-> id, children |-> <<>>]

\* parse_list skips the whitespace before its first item: the level of the
\* first item is 0, the levels of the items behind it are any
InitList ==
    /\ \E levels \in SeqsUpTo(MaxItems, 0..MaxLevel) :
          /\ levels # <<>> => levels[1] = 0
          /\ list = [levels |-> levels, next |-> 1, list_hierarchy |-> <<>>,
                     items |-> <<>>, state |-> "items"]
    /\ parser = create(None, <<>>, FALSE, <<>>)
    /\ overflow_checks = TRUE
    /\ position = None
    /\ lastOp = Op("create", 0, TRUE, 0)
    /\ pc = "list"
    /\ scheduler = NoScheduler
    /\ render = NoRender

\* an iteration of while let Ok(mut item) = self.parse_list_item() { ... }
ListItemStep ==
    /\ list.state = "items"
    /\ list.next <= Len(list.levels)
    /\ \E r \in {push_item(Item(list.next, list.levels[list.next]),
                           list.list_hierarchy, list.items)} :
          list' = [list EXCEPT !.next = @ + 1,
                               !.list_hierarchy = r.list_hierarchy,
                               !.items = r.items]
    /\ UNCHANGED <<parser, overflow_checks, position, lastOp, pc, scheduler, render>>

\* parse_list_item fails: the hierarchy is combined and appended to the items
ListFinish ==
    /\ list.state = "items"
    /\ list.next > Len(list.levels)
    /\ list' = [list EXCEPT !.items = @ \o combine(list.list_hierarchy),
                            !.list_hierarchy = <<>>,
                            !.state = "done"]
    /\ UNCHANGED <<parser, overflow_checks, position, lastOp, pc, scheduler, render>>

NextList ==
    \/ ListItemStep
    \/ ListFinish

SpecList == InitList /\ [][NextList]_vars

----------------------------------------------------------------------------
(* Claims about the cursor                                                 *)

\* C1: for every position p the index has held (recorded after construction
\* or after any next_char/skip_char calls), revert_to(p) succeeds and leaves
\* index = p and current_char = text[p].
C1_RevertToRecorded ==
    (lastOp.op = "revert_to" /\ position = Some(lastOp.arg) /\ parser.text # <<>>) =>
        /\ lastOp.ok
        /\ parser.index = lastOp.arg
        /\ parser.current_char = parser.text[lastOp.arg + 1]

\* the character at 0-based index i is escaped: the one before it is the
\* escape character and is not itself escaped
RECURSIVE IsEscapedAt(_, _)
IsEscapedAt(text, i) ==
    i > 0 /\ text[i] = SPECIAL_ESCAPE /\ ~IsEscapedAt(text, i - 1)

\* C2: at every position reached by next_char and revert_to, check_escaped()
\* holds iff the previous character is an escape character that is not itself
\* escaped, and check_special, check_special_group and check_linebreak reject
\* the current character exactly then.
C2_EscapedIffUnescapedBackslash ==
    (~parser.panicked /\ parser.index < Len(parser.text)) =>
        \E esc \in {IsEscapedAt(parser.text, parser.index)} :
           /\ check_escaped(parser) = esc
           /\ check_special(parser, parser.current_char) = ~esc
           /\ check_special_group(parser, {parser.current_char}) = ~esc
           /\ (parser.current_char = LB => check_linebreak(parser) = ~esc)

\* C3: the character buffer is append-only: no step shortens the text or
\* changes a character of it, so every index revert_to accepted stays valid.
C3_BufferAppendOnly ==
    [][ /\ Len(parser.text) <= Len(parser'.text)
        /\ SubSeq(parser'.text, 1, Len(parser.text)) = parser.text
        /\ ~parser'.panicked =>
             \A i \in 0..(Len(parser.text) - 1) : revert_to(parser', i).ok ]_vars

\* a revert to an index of the first batch, after a refill has extended the text
C3_Witness ==
    /\ parser.text = Pad \o <<"a">>
    /\ lastOp.op = "revert_to" /\ lastOp.ok /\ lastOp.arg < BatchLines

\* C4: revert_to(i) with i >= len(text) returns an error carrying i, leaves
\* index, current_char and previous_char unchanged, and no caller discards
\* the error and carries on.
C4_OutOfRangeRevertFatal ==
    [][ /\ (lastOp'.op = "revert_to" /\ lastOp'.arg >= Len(parser.text)) =>
             /\ ~lastOp'.ok
             /\ lastOp'.err_index = lastOp'.arg
             /\ parser'.index = parser.index
             /\ parser'.current_char = parser.current_char
             /\ parser'.previous_char = parser.previous_char
        /\ ~parser'.revert_err_dropped ]_vars

\* C5: when a block production returns an error, the index is the one it had
\* when the production was entered (here: parse_code_block).
C5_FailedProductionRestoresIndex ==
    [][ (lastOp'.op = "parse_code_block" /\ ~lastOp'.ok /\ ~parser'.panicked) =>
            parser'.index = parser.index ]_vars

----------------------------------------------------------------------------
(* Claims about the block parser                                           *)

AltOrder ==
    <<"section", "list", "table", "code_block", "quote", "import", "placeholder",
      "paragraph">>

AltKind ==
    [section |-> "Section", list |-> "List", table |-> "Table",
     code_block |-> "CodeBlock", quote |-> "Quote", import |-> "Import",
     placeholder |-> "Placeholder", paragraph |-> "Paragraph"]

\* C6: every call of parse_block tries the alternatives in the order section,
\* list, table, code_block, quote, import, placeholder, paragraph and returns
\* the block of the first that succeeds; it returns an error only if all
\* eight have failed or a section_return signal is pending.
C6_BlockPriority ==
    \A k \in 1..Len(parser.trace) :
        \E e \in {parser.trace[k]} :
           /\ Len(e.tried) <= Len(AltOrder)
           /\ \A j \in 1..Len(e.tried) :
                 /\ e.tried[j][1] = AltOrder[j]
                 /\ j < Len(e.tried) => ~e.tried[j][2]
           /\ e.ok <=> (e.tried # <<>> /\ e.tried[Len(e.tried)][2])
           /\ e.ok => e.kind = AltKind[e.tried[Len(e.tried)][1]]
           /\ ~e.ok => (Len(e.tried) = Len(AltOrder) \/ e.section_return # None)

\* inside a section, a paragraph returned after the seven alternatives before
\* it have failed
C6_Witness ==
    \E k \in 1..Len(parser.trace) :
        /\ parser.trace[k].section_nesting > 0
        /\ parser.trace[k].ok
        /\ parser.trace[k].kind = "Paragraph"
        /\ Len(parser.trace[k].tried) = Len(AltOrder)

RECURSIVE SectionsIncrease(_)
SectionsIncrease(block) ==
    block.kind = "Section" =>
        \A i \in 1..Len(block.elements) :
            /\ block.elements[i].kind = "Section" =>
                   block.elements[i].header.size > block.header.size
            /\ SectionsIncrease(block.elements[i])

\* C7: in the document returned by parse(), and in the one being built, each
\* Section directly inside another has a strictly greater header.size.
C7_SectionMonotonicity ==
    /\ \A i \in 1..Len(parser.document.elements) :
          SectionsIncrease(parser.document.elements[i])
    /\ lastOp.op = "parse" =>
          \A i \in 1..Len(lastOp.document.elements) :
              SectionsIncrease(lastOp.document.elements[i])

\* the sections of the blocks in document order, each as <<size, size of
\* the section it is directly inside, or 0 at top level>>
RECURSIVE Outline(_, _)
Outline(elements, parent) ==
    IF elements = <<>> THEN <<>>
    ELSE (IF Head(elements).kind = "Section"
          THEN << <<Head(elements).header.size, parent>> >>
               \o Outline(Head(elements).elements, Head(elements).header.size)
          ELSE <<>>)
         \o Outline(Tail(elements), parent)

\* a returned document with a section two levels deep
C7_Witness ==
    /\ lastOp.op = "parse"
    /\ \E i \in 1..Len(Outline(lastOp.document.elements, 0)) :
          Outline(lastOp.document.elements, 0)[i] = <<3, 2>>

RECURSIVE LeadingHashes(_)
LeadingHashes(line) ==
    IF line # <<>> /\ Head(line) = HASH THEN 1 + LeadingHashes(Tail(line)) ELSE 0

IsHeaderLine(line) ==
    /\ LeadingHashes(line) >= 1
    /\ Len(line) > LeadingHashes(line)
    /\ is_whitespace(line[LeadingHashes(line) + 1])

IsImportLine(line) ==
    Len(line) >= 2 /\ line[1] = IMPORT_START /\ line[2] = IMPORT_OPEN

\* the sizes of the open sections that stay open when a header of size s is read
RECURSIVE StayOpen(_, _)
StayOpen(open, s) ==
    IF open # <<>> /\ Last(open) >= s THEN StayOpen(Front(open), s) ELSE open

\* the outline the nesting protocol prescribes for the lines of a source
RECURSIVE ExpectedOutline(_, _)
ExpectedOutline(lines, open) ==
    IF lines = <<>> THEN <<>>
    ELSE IF IsHeaderLine(Head(lines))
    THEN LET s == LeadingHashes(Head(lines))
             kept == StayOpen(open, s)
         IN  << <<s, IF kept = <<>> THEN 0 ELSE Last(kept)>> >>
             \o ExpectedOutline(Tail(lines), Append(kept, s))
    ELSE ExpectedOutline(Tail(lines), open)

\* the lines of the source hold headers of the sizes a u8 holds and no
\* other hash runs, and no imports
HeadersOnly(lines) ==
    \A i \in 1..Len(lines) :
        /\ LeadingHashes(lines[i]) > 0 =>
              IsHeaderLine(lines[i]) /\ LeadingHashes(lines[i]) <= U8_MAX
        /\ ~IsImportLine(lines[i])

\* C8: a header of size s' read inside open sections s1 < ... < sk with
\* s' <= sk is refused with section_return = s' recorded; the sections of
\* size >= s' are closed and no other, and the new section is placed in the
\* first open section of smaller size, or at top level.
C8_NestingProtocol ==
    /\ \A k \in 1..Len(parser.trace) :
          \E e \in {parser.trace[k]} :
             (/\ IsHeaderLine(SubSeq(parser.text, e.index + 1, Len(parser.text)))
              /\ e.section_nesting > 0
              /\ LeadingHashes(SubSeq(parser.text, e.index + 1, Len(parser.text)))
                    <= e.section_nesting)
             => /\ ~e.ok
                /\ e.section_return =
                     Some(LeadingHashes(SubSeq(parser.text, e.index + 1,
                                               Len(parser.text))))
    /\ (lastOp.op = "parse" /\ HeadersOnly(SplitLines(parser.text, <<>>))) =>
          Outline(lastOp.document.elements, 0)
             = ExpectedOutline(SplitLines(parser.text, <<>>), <<>>)

\* sizes 1, 3, 2: the header of size 2 closes the section of size 3 and is
\* placed in the section of size 1
C8_Witness ==
    /\ lastOp.op = "parse"
    /\ Outline(lastOp.document.elements, 0) = << <<1, 0>>, <<3, 1>>, <<2, 1>> >>

ImportAt(text, i) ==
    /\ i + 4 <= Len(text)
    /\ text[i + 1] = IMPORT_START /\ text[i + 2] = IMPORT_OPEN
    /\ text[i + 3] \notin {IMPORT_CLOSE, LB}
    /\ text[i + 4] = IMPORT_CLOSE

Importable(p, file) ==
    /\ <<file>> \in ExistingFiles
    /\ \A i \in 1..Len(p.paths) : p.paths[i] # <<file>>

\* C9: parse_block entered at a well-formed import with section_nesting > 0
\* fails at parse_import with section_return = 0; the step spawns no worker
\* and leaves the seen paths alone; it ends with every section closed and
\* the cursor at the import, which the next call of parse_block, at top
\* level, parses as an Import block.
C9_ImportInsideSection ==
    [][ /\ (pc = "loop" /\ lastOp'.op = "parse_block") =>
             \A k \in 1..Len(parser'.trace) :
                \E e \in {parser'.trace[k]} :
                   (/\ e.section_nesting > 0 /\ ~e.pending
                    /\ ImportAt(parser.text, e.index)) =>
                      /\ ~e.ok
                      /\ e.tried # <<>>
                      /\ e.tried[Len(e.tried)] = <<"import", FALSE>>
                      /\ e.section_return = Some(0)
                      /\ parser'.spawned = parser.spawned
                      /\ parser'.paths = parser.paths
                      /\ parser'.sections = <<>> /\ parser'.section_nesting = 0
                      /\ parser'.index = e.index
                      /\ parser'.section_return = Some(0)
                      /\ pc' = "loop"
        /\ (pc = "loop" /\ lastOp'.op = "parse_block"
            /\ parser.section_return = Some(0)) =>
               /\ ImportAt(parser.text, parser.index)
               /\ Last(parser'.trace).section_nesting = 0
               /\ Last(parser'.trace).index = parser.index
               /\ Importable(parser, parser.text[parser.index + 3]) =>
                     /\ lastOp'.ok
                     /\ Last(parser'.document.elements).kind = "Import"
                     /\ parser'.spawned = Append(parser.spawned,
                                                 <<parser.text[parser.index + 3]>>)
      ]_vars

\* the import read inside a section of size 2 has closed it and stands after
\* it at top level, its worker spawned
C9_Witness ==
    /\ lastOp.op = "parse_block" /\ lastOp.ok
    /\ Len(parser.document.elements) = 2
    /\ parser.document.elements[1].kind = "Section"
    /\ parser.document.elements[1].header.size = 2
    /\ parser.document.elements[2].kind = "Import"
    /\ parser.spawned = << <<"f">> >>

----------------------------------------------------------------------------
(* Claims about parse_list                                                 *)

RECURSIVE ChildrenDeeper(_)
ChildrenDeeper(item) ==
    \A i \in 1..Len(item.children) :
        /\ item.children[i].level > item.level
        /\ ChildrenDeeper(item.children[i])

\* C10: whatever the levels of the items read, every child ListItem of the
\* returned List, and of the hierarchy while it is assembled, has a level
\* strictly greater than the item it is attached to.
C10_ListHierarchy ==
    /\ \A i \in 1..Len(list.items) : ChildrenDeeper(list.items[i])
    /\ \A i \in 1..Len(list.list_hierarchy) : ChildrenDeeper(list.list_hierarchy[i])

\* levels 0, 2, 1, 1: the three items behind the first are its children
C10_Witness ==
    /\ list.state = "done"
    /\ list.levels = <<0, 2, 1, 1>>
    /\ Len(list.items) = 1
    /\ Len(list.items[1].children) = 3


----------------------------------------------------------------------------
(* The block productions as a state machine: a caller walks the cursor     *)
(* over a source of list, table, quote or code lines and applies a         *)
(* production at any position it reaches.                                  *)

ListLines ==
    { <<MINUS, " ", "a", LB>>, <<"*", " ", "a", LB>>, <<"1", ".", " ", "a", LB>>,
      <<" ", MINUS, " ", "a", LB>>, <<SPECIAL_ESCAPE, MINUS, " ", "a", LB>> }

TableLines ==
    { <<PIPE, "a", PIPE, LB>>, <<PIPE, MINUS, PIPE, LB>>, <<"b", LB>>,
      <<MINUS, MINUS, LB>> }

QuoteLines ==
    { <<QUOTE_START, " ", "a", LB>>, <<QUOTE_START, "a", LB>>, <<QUOTE_START, LB>>,
      <<"a", LB>>, <<LB>> }

ListSources == {Flatten(ls) : ls \in SeqsUpTo(MaxLines, ListLines)}

TableSources == {Flatten(ls) : ls \in SeqsUpTo(MaxLines, TableLines)}

QuoteSources == {Flatten(ls) : ls \in SeqsUpTo(MaxLines, QuoteLines)}

\* an opening fence, a language token, a newline, a body line, a newline, a
\* closing fence, and what follows the fence
FencedSource(language, body, rest) ==
    SQ_CODE_BLOCK \o language \o <<LB>> \o body \o <<LB>> \o SQ_CODE_BLOCK \o rest

\* language tokens that no syntax definition is found for
FenceLanguages == {<<"x">>, <<"x", "y">>}

FenceBodies == {<<"a">>, <<"a", " ", "a">>, <<"<", "a">>}

FenceRests == {<<>>, <<LB>>, <<LB, "a", LB>>, <<"a">>}

FencedSources ==
    { FencedSource(l, b, r) : l \in FenceLanguages, b \in FenceBodies, r \in FenceRests }

ProdSources == ListSources \cup TableSources \cup QuoteSources \cup FencedSources

\* the outcome of a production entered at index `entry`
Prod(name, entry, r) ==
    [op |-> name, arg |-> entry, ok |-> r.ok, err_index |-> r.err_index,
     val |-> IF r.ok THEN r.val ELSE None]

InitProd ==
    /\ \E src \in ProdSources : parser = create(None, <<>>, FALSE, src)
    /\ overflow_checks = TRUE
    /\ position = None
    /\ lastOp = Op("create", 0, TRUE, 0)
    /\ pc = "prod"
    /\ list = NoList
    /\ scheduler = NoScheduler
    /\ render = NoRender

ProdAdvance ==
    /\ ~parser.panicked /\ parser.index < MaxIndex(parser)
    /\ \E n \in {next_char(Fresh(parser))} :
          /\ parser' = n.p
          /\ lastOp' = Op("next_char", parser.index, n.ret # None, 0)
    /\ UNCHANGED <<overflow_checks, position, pc, list, scheduler, render>>

ParseList ==
    /\ ~parser.panicked /\ parser.index < MaxIndex(parser)
    /\ \E r \in {parse_list(Fresh(parser))} :
          /\ parser' = r.p
          /\ lastOp' = Prod("parse_list", parser.index, r)
    /\ UNCHANGED <<overflow_checks, position, pc, list, scheduler, render>>

ParseTable ==
    /\ ~parser.panicked /\ parser.index < MaxIndex(parser)
    /\ \E r \in {parse_table(Fresh(parser))} :
          /\ parser' = r.p
          /\ lastOp' = Prod("parse_table", parser.index, r)
    /\ UNCHANGED <<overflow_checks, position, pc, list, scheduler, render>>

ParseQuote ==
    /\ ~parser.panicked /\ parser.index < MaxIndex(parser)
    /\ \E r \in {parse_quote(Fresh(parser))} :
          /\ parser' = r.p
          /\ lastOp' = Prod("parse_quote", parser.index, r)
    /\ UNCHANGED <<overflow_checks, position, pc, list, scheduler, render>>

ParseFenced ==
    /\ ~parser.panicked /\ parser.index < MaxIndex(parser)
    /\ \E r \in {parse_code_block(Fresh(parser))} :
          /\ parser' = r.p
          /\ lastOp' = Prod("parse_code_block", parser.index, r)
    /\ UNCHANGED <<overflow_checks, position, pc, list, scheduler, render>>

NextProd ==
    \/ ProdAdvance
    \/ ParseList
    \/ ParseTable
    \/ ParseQuote
    \/ ParseFenced

SpecProd == InitProd /\ [][NextProd]_vars

\* the index of the first character at or after index i that is not
\* whitespace (Len(text) if there is none)
RECURSIVE SkipWhitespace(_, _)
SkipWhitespace(text, i) ==
    IF i < Len(text) /\ is_whitespace(text[i + 1]) THEN SkipWhitespace(text, i + 1)
    ELSE i

\* the character at index i of the text is an unescaped unordered bullet
UnorderedBulletAt(text, i) ==
    /\ i < Len(text)
    /\ text[i + 1] \in LIST_SPECIAL_CHARS
    /\ ~IsEscapedAt(text, i)

\* C11: List.ordered is decided once, from the character at the start of the
\* list after leading whitespace: false if that character is an unescaped
\* member of the unordered bullet set, true otherwise, whatever the markers
\* of the later items of the list are.
C11_OrderedFromFirstBullet ==
    (lastOp.op = "parse_list" /\ lastOp.ok) =>
        lastOp.val.ordered =
            ~UnorderedBulletAt(parser.text, SkipWhitespace(parser.text, lastOp.arg))

\* an ordered list whose second item carries an unordered bullet
C11_Witness ==
    /\ lastOp.op = "parse_list" /\ lastOp.ok /\ lastOp.arg = 0
    /\ parser.text = <<"1", ".", " ", "a", LB, MINUS, " ", "a", LB>>
    /\ lastOp.val.ordered
    /\ Len(lastOp.val.items) = 2

\* the index after the linebreak that ends the line holding index i
RECURSIVE LineEnd(_, _)
LineEnd(text, i) ==
    IF i >= Len(text) THEN Len(text)
    ELSE IF text[i + 1] = LB THEN i + 1
    ELSE LineEnd(text, i + 1)

\* the line that starts at index i, without its linebreak
LineAt(text, i) ==
    IF i >= Len(text) THEN <<>>
    ELSE SubSeq(text, i + 1,
                IF text[LineEnd(text, i)] = LB THEN LineEnd(text, i) - 1
                ELSE LineEnd(text, i))

\* a separator row: a line made only of MINUS and PIPE
IsSeparatorLine(line) ==
    line # <<>> /\ \A k \in 1..Len(line) : line[k] \in {MINUS, PIPE}

\* the rows of the lines from index i on, up to the first line that is no row
RECURSIVE RowsFrom(_, _)
RowsFrom(text, i) ==
    IF i >= Len(text) \/ text[i + 1] # PIPE THEN <<>>
    ELSE <<[kind |-> "Row", cells |-> Tail(LineAt(text, i))]>>
         \o RowsFrom(text, LineEnd(text, i))

\* C12: after parse_table has read the header row, if the following line is
\* not a separator row made only of MINUS and PIPE, the Table has no body rows
\* and the cursor is back at the start of that following line; if it is a
\* separator row, the body rows are the rows that follow it, in source order,
\* up to the first line that is no row.
C12_TableSeparator ==
    (lastOp.op = "parse_table" /\ lastOp.ok) =>
        \E following \in {LineEnd(parser.text, lastOp.arg)} :
            IF following >= Len(parser.text) THEN lastOp.val.rows = <<>>
            ELSE IF IsSeparatorLine(LineAt(parser.text, following))
            THEN lastOp.val.rows = RowsFrom(parser.text, LineEnd(parser.text, following))
            ELSE /\ lastOp.val.rows = <<>>
                 /\ parser.index = following

\* a header row, a line of text and a row: the line of text is taken for the
\* separator and the row after it becomes a body row
C12_TextLineTakenForSeparator ==
    /\ lastOp.op = "parse_table" /\ lastOp.ok /\ lastOp.arg = 0
    /\ parser.text = <<PIPE, "a", PIPE, LB, "b", LB, PIPE, "a", PIPE, LB>>
    /\ Len(lastOp.val.rows) = 1

\* C13: parse_quote returns a Quote only if it holds at least one text line;
\* in every other case it returns an error and the cursor index equals the
\* index at entry.
C13_QuoteOrRestoredIndex ==
    (lastOp.op = "parse_quote" /\ ~parser.panicked) =>
        IF lastOp.ok THEN Len(lastOp.val.text) >= 1
        ELSE parser.index = lastOp.arg

----------------------------------------------------------------------------
(* Rendering (format/html.rs). A rendered string is a sequence of pieces:  *)
(* the characters of the source, the entities of the encoders and the      *)
(* fixed fragments of the format! templates.                               *)

\* htmlescape::encode_minimal: the five characters with a minimal entity
encode_minimal_char(c) ==
    CASE c = "<" -> "&lt;"
      [] c = ">" -> "&gt;"
      [] c = "&" -> "&amp;"
      [] c = "\"" -> "&quot;"
      [] c = "'" -> "&#x27;"
      [] OTHER -> c

encode_minimal(str) == [k \in 1..Len(str) |-> encode_minimal_char(str[k])]

\* the alphanumeric characters of the enumerated sources
is_alphanumeric(c) ==
    c \in {"a", "b", "c", "e", "f", "g", "p", "q", "s", "x", "y"} \/ is_numeric(c)

\* htmlescape::encode_attribute: the five characters of encode_minimal
\* become their entity, every other character that is not alphanumeric
\* becomes a numeric entity (written here with the character in the place
\* of its code)
encode_attribute(str) ==
    [k \in 1..Len(str) |->
        IF is_alphanumeric(str[k]) THEN str[k]
        ELSE IF encode_minimal_char(str[k]) # str[k] THEN encode_minimal_char(str[k])
        ELSE "&#x" \o str[k] \o ";"]

\* impl ToHtml for CodeBlock, for a language without a syntax definition
code_block_to_html(block) ==
    IF Len(block.language) > 0
    THEN <<"<div><code lang='">> \o encode_attribute(block.language) \o <<"'><pre>">>
         \o encode_minimal(block.code) \o <<"</pre></code></div>">>
    ELSE <<"<div><code><pre>">> \o encode_minimal(block.code) \o <<"</pre></code></div>">>

\* C14: for a source made of an opening fence, a language token, a newline,
\* a body line, a newline and a closing fence, with or without text after
\* the fence, parse_code_block yields the token as language and exactly the
\* body line as code, and the block renders as
\* <div><code lang='L'><pre>BODY</pre></code></div> with neither a newline
\* nor a fence character inside <pre>.
C14_CodeBlockBody ==
    \A l \in FenceLanguages, b \in FenceBodies, r \in FenceRests :
        (lastOp.op = "parse_code_block" /\ lastOp.arg = 0
         /\ parser.text = FencedSource(l, b, r)) =>
            /\ lastOp.ok
            /\ lastOp.val.language = l
            /\ lastOp.val.code = b
            /\ code_block_to_html(lastOp.val) =
                  <<"<div><code lang='">> \o l \o <<"'><pre>">> \o encode_minimal(b)
                  \o <<"</pre></code></div>">>

----------------------------------------------------------------------------
(* Failed imports                                                          *)

\* the elements Parser::parse collects from parser state p on:
\* while self.index < self.text.len() { match self.parse_block() {
\*     Ok(block) => add_element(block), Err(_) => break } }
RECURSIVE parse_loop(_)
parse_loop(p) ==
    IF ~(p.index < Len(p.text)) THEN p.document.elements
    ELSE With(parse_block(Fresh(p)), LAMBDA r :
        IF r.p.panicked \/ ~r.ok THEN r.p.document.elements
        ELSE parse_loop([r.p EXCEPT !.document.elements = Append(@, r.val)]))

\* the document of a source parsed on its own
DocumentOf(src) == parse_loop(create(None, <<>>, FALSE, src))

\* the source starts with an import statement for the missing file "g"
StartsWithFailedImport(text) ==
    /\ Len(text) >= Len(ImportLn("g"))
    /\ SubSeq(text, 1, Len(ImportLn("g"))) = ImportLn("g")

AfterFailedImport(text) == SubSeq(text, Len(ImportLn("g")) + 1, Len(text))

\* C15 (first part): an import statement at top level that names a path
\* which is no existing file adds nothing to the seen paths, spawns no
\* worker, and no Import block stands for it in the document.
C15_FailedImportLeavesNoTrace ==
    (pc = "done" /\ StartsWithFailedImport(parser.text)) =>
        /\ \A i \in 1..Len(parser.paths) : parser.paths[i] # <<"g">>
        /\ \A i \in 1..Len(parser.spawned) : parser.spawned[i] # <<"g">>
        /\ \A i \in 1..Len(lastOp.document.elements) :
              lastOp.document.elements[i].kind = "Import" =>
                  lastOp.document.elements[i].path # <<"g">>

\* C15: a failed import at top level leaves no trace, and parsing continues
\* so that the rest of the document after the import statement is still
\* produced: the document holds the blocks of the text after the statement.
C15_FailedImportRestProduced ==
    (pc = "done" /\ StartsWithFailedImport(parser.text)) =>
        /\ C15_FailedImportLeavesNoTrace
        /\ lastOp.document.elements = DocumentOf(AfterFailedImport(parser.text))

----------------------------------------------------------------------------
(* The import scheduler (parser/mod.rs:166-213 and 215-265): the root      *)
(* parser and the workers spawned by import_document as threads that       *)
(* share the seen paths. What a thread does between two imports is its     *)
(* own, so a file stands here for the import statements at its top level.  *)

\* in the place of an import statement: a block at the top level of the
\* file on which parse_block returns an error
ParseErrorHere == <<"!">>

\* the import statements of the files, in source order, as written
FileImports(phys) ==
    CASE phys = <<"c">> -> << <<"f">> >>
      [] phys = <<"m">> -> << <<"a">>, ParseErrorHere, <<"c">> >>
      [] phys = <<"6">> -> << <<"m">>, <<"f">> >>
      [] phys = <<"7">> -> << <<"7">> >>
      [] phys = <<"s", "/", "e">> -> << <<".", ".", "/", "f">> >>
      [] phys = <<"p">> -> << <<"q">> >>
      [] phys = <<"q">> -> << <<"p">> >>
      [] phys = <<"1">> -> << <<"c">>, <<"f">> >>
      [] phys = <<"2">> -> << <<"s", "/", "e">>, <<"f">> >>
      [] phys = <<"3">> -> << <<"f">>, <<"f">> >>
      [] phys = <<"4">> -> << <<"p">> >>
      [] phys = <<"5">> -> << <<"g">>, <<"x">>, <<"f">> >>
      [] OTHER -> <<>>

\* the files a root parser is created from
RootFiles == {<<"1">>, <<"2">>, <<"3">>, <<"4">>, <<"5">>, <<"6">>, <<"7">>}

\* files that exist but that File::open may fail on
Unreadable == {<<"x">>}

\* a parser thread. wg is self.wg, join the wait-group parse() waits on,
\* captured the wait-group handle moved into the worker's closure, anchor
\* the anchor the worker publishes to, handed the anchors import_document
\* has returned to this parser (0: none)
Thread(path, parent, captured, anchor) ==
    [path |-> path, parent |-> parent, captured |-> captured, anchor |-> anchor,
     pc |-> "start", todo |-> <<>>, full |-> <<>>, wg |-> 0, join |-> 0,
     handed |-> <<>>, parsing |-> FALSE, is_root |-> FALSE]

\* ImportAnchor::new() for the worker thread `worker`; `at` is the number of
\* the import statement in the source of the importing file
ImportAnchor(worker) ==
    [document |-> None, writes |-> 0, writer |-> 0, worker |-> worker, early |-> FALSE,
     at |-> 0]

\* the Import block is put in front of the elements
add_element_in_front(elements, block) == <<block>> \o elements

\* Ok(block) => self.document.add_element(block)
add_element(elements, block) == Append(elements, block)

\* the document of every parser is a root document
document_new_root(is_child) == Document(TRUE)

\* let document = Document::new(!is_child) in Parser::create
document_new(is_child) == Document(~is_child)

\* Parser::new_from_file(path): create pushes the path, self.wg is new
InitImport ==
    /\ \E root \in RootFiles :
          scheduler =
             [state |-> "run",
              threads |-> << [Thread(root, 0, 0, 0) EXCEPT
                                 !.pc = "parse", !.todo = FileImports(root),
                                 !.wg = 1, !.parsing = TRUE,
                                 !.is_root = document_new(FALSE).is_root] >>,
              paths |-> <<root>>,
              lock |-> 0,
              wgs |-> <<1>>,
              anchors |-> <<>>,
              calls |-> {},
              html |-> None]
    /\ parser = create(None, <<>>, FALSE, <<>>)
    /\ overflow_checks = TRUE
    /\ position = None
    /\ lastOp = Op("create", 0, TRUE, 0)
    /\ pc = "import"
    /\ list = NoList
    /\ render = NoRender

ThreadIds == 1..Len(scheduler.threads)

\* an outcome of import_document, noted in the auxiliary `calls`
Call(t, full, outcome) == [thread |-> t, path |-> full, outcome |-> outcome]

Sched(s) ==
    /\ scheduler' = s
    /\ UNCHANGED <<parser, overflow_checks, position, lastOp, pc, list, render>>

\* import_document up to the lock: transform_path, exists, is_file
ImportBegin(t) ==
    /\ scheduler.state = "run"
    /\ scheduler.threads[t].pc = "parse"
    /\ scheduler.threads[t].todo # <<>>
    /\ Head(scheduler.threads[t].todo) # ParseErrorHere
    /\ \E full \in {transform_path([path |-> Some(scheduler.threads[t].path)],
                                   Head(scheduler.threads[t].todo))} :
          IF ~exists(full)
          THEN Sched([scheduler EXCEPT
                        !.threads[t].todo = Tail(@),
                        !.calls = @ \cup {Call(t, full, "missing")}])
          ELSE Sched([scheduler EXCEPT
                        !.threads[t].todo = Tail(@),
                        !.threads[t].full = full,
                        !.threads[t].pc = "lock"])

\* the loop of parse() goes on with the block after the error
after_error_continue(todo) == Tail(todo)

\* Err(err) => { ...; break }
after_error(todo) == <<>>

\* parse_block returns an error at the top level of the file
ParseError(t) ==
    /\ scheduler.threads[t].pc = "parse"
    /\ scheduler.threads[t].todo # <<>>
    /\ Head(scheduler.threads[t].todo) = ParseErrorHere
    /\ Sched([scheduler EXCEPT !.threads[t].todo = after_error(@)])

\* the mutex is taken whether or not another thread holds it
lock_free_always(s) == TRUE

\* Mutex::lock returns when no other thread holds the mutex
lock_free(s) == s.lock = 0

\* let mut paths = self.paths.lock().unwrap()
ImportLock(t) ==
    /\ scheduler.threads[t].pc = "lock"
    /\ lock_free(scheduler)
    /\ Sched([scheduler EXCEPT !.lock = t, !.threads[t].pc = "find"])

\* item == path for two PathBufs: the same components
same_path(item, path) == Components(item, <<>>) = Components(path, <<>>)

\* if paths.iter().find(|item| **item == path) != None { ... }
ImportFind(t) ==
    /\ scheduler.threads[t].pc = "find"
    /\ IF \E i \in 1..Len(scheduler.paths) :
             same_path(scheduler.paths[i], scheduler.threads[t].full)
       THEN Sched([scheduler EXCEPT !.threads[t].pc = "cyclic"])
       ELSE Sched([scheduler EXCEPT !.threads[t].pc = "push"])

\* the return of the cyclic import leaves the mutex locked
guard_kept(lock) == lock

\* the MutexGuard goes out of scope: the mutex is unlocked
guard_dropped(lock) == 0

\* println!("Import of .. failed: Cyclic import."); return Err(..)
\* the line is written to the standard output inside the block of the
\* guard; the guard is dropped by the return
ImportCyclic(t) ==
    /\ scheduler.threads[t].pc = "cyclic"
    /\ Sched([scheduler EXCEPT
                !.lock = guard_dropped(@),
                !.threads[t].pc = "parse",
                !.calls = @ \cup {Call(t, scheduler.threads[t].full, "cyclic")}])

\* paths.push(path.clone()); the guard is dropped at the end of the block
ImportPush(t) ==
    /\ scheduler.threads[t].pc = "push"
    /\ Sched([scheduler EXCEPT
                !.paths = Append(@, scheduler.threads[t].full),
                !.lock = 0,
                !.threads[t].pc = "spawn",
                !.calls = @ \cup {Call(t, scheduler.threads[t].full, "inserted")}])

\* the worker is spawned without a handle of the wait-group
spawn_without_clone(wgs, id) == wgs

\* let wg = self.wg.clone(), before thread::spawn
spawn_clone(wgs, id) == [wgs EXCEPT ![id] = @ + 1]

\* the number of the import statement the thread has read last
StatementNumber(thread) == Len(FileImports(Phys(thread.path))) - Len(thread.todo)

\* the anchor, the clone of the wait-group, thread::spawn, Ok(anchor); the
\* Import block with the anchor is added to the elements of the document
ImportSpawn(t) ==
    /\ scheduler.threads[t].pc = "spawn"
    /\ \E a \in {Len(scheduler.anchors) + 1}, w \in {Len(scheduler.threads) + 1} :
          Sched([scheduler EXCEPT
                   !.anchors = Append(@, [ImportAnchor(w) EXCEPT
                                             !.at = StatementNumber(scheduler.threads[t])]),
                   !.wgs = spawn_clone(@, scheduler.threads[t].wg),
                   !.threads = Append([@ EXCEPT ![t].pc = "parse",
                                                ![t].handed = add_element(@, a)],
                                      Thread(scheduler.threads[t].full, t,
                                             scheduler.threads[t].wg, a))])

\* the panic unwinds without dropping the captured handle
unwind_leaking(wgs, id) == wgs

\* a panic in the closure drops what the closure has captured, wg included
unwind(wgs, id) == [wgs EXCEPT ![id] = @ - 1]

\* Parser::child_from_file(path, paths).unwrap(): File::open, or the panic
WorkerOpen(t) ==
    /\ scheduler.threads[t].pc = "start"
    /\ \/ Sched([scheduler EXCEPT !.threads[t].pc = "create"])
       \/ /\ Phys(scheduler.threads[t].path) \in Unreadable
          /\ Sched([scheduler EXCEPT
                      !.threads[t].pc = "panicked",
                      !.wgs = unwind(@, scheduler.threads[t].captured)])

\* Parser::create in the worker: paths.lock().unwrap().push(path.clone()),
\* a new wait-group, the text of the file
WorkerCreate(t) ==
    /\ scheduler.threads[t].pc = "create"
    /\ lock_free(scheduler)
    /\ Sched([scheduler EXCEPT
                !.paths = Append(@, scheduler.threads[t].path),
                !.wgs = Append(@, 1),
                !.threads[t].wg = Len(scheduler.wgs) + 1,
                !.threads[t].todo = FileImports(Phys(scheduler.threads[t].path)),
                !.threads[t].parsing = TRUE,
                !.threads[t].is_root = document_new(TRUE).is_root,
                !.threads[t].pc = "parse"])

\* the loop of parse() is over: let wg = self.wg.clone(); self.wg = WaitGroup::new()
\* (the clone adds a handle, the assignment drops one)
ParseEnd(t) ==
    /\ scheduler.threads[t].pc = "parse"
    /\ scheduler.threads[t].todo = <<>>
    /\ Sched([scheduler EXCEPT
                !.wgs = Append(@, 1),
                !.threads[t].join = scheduler.threads[t].wg,
                !.threads[t].wg = Len(scheduler.wgs) + 1,
                !.threads[t].pc = "wait"])

\* wg.wait(): returns when this handle is the last one
JoinDone(t) ==
    /\ scheduler.threads[t].pc = "wait"
    /\ scheduler.wgs[scheduler.threads[t].join] = 1
    /\ Sched([scheduler EXCEPT
                !.wgs[scheduler.threads[t].join] = 0,
                !.threads[t].pc = "post"])

\* the anchor a is read: the read is early if the anchor is not written yet
\* and its worker has not failed
ReadAnchor(s, a) ==
    [s.anchors[a] EXCEPT
        !.early = @ \/ (s.anchors[a].writes = 0
                        /\ s.threads[s.anchors[a].worker].pc # "panicked")]

\* the anchors read when the imports `handed` are read, and those of the
\* documents found in them
RECURSIVE AnchorsRead(_, _)
AnchorsRead(s, handed) ==
    UNION { {handed[i]} \cup
            (IF s.anchors[handed[i]].document = None THEN {}
             ELSE AnchorsRead(s, s.anchors[handed[i]].document[1].imports))
            : i \in 1..Len(handed) }

ReadAll(s, read) ==
    [a \in 1..Len(s.anchors) |-> IF a \in read THEN ReadAnchor(s, a) ELSE s.anchors[a]]

\* the worker drops its handle before it publishes
worker_next_release_first(pc_) ==
    CASE pc_ = "post" -> "release" [] pc_ = "release" -> "publish" [] OTHER -> "finished"

\* the closure of the worker after parse(): set_document, then drop(wg)
worker_next(pc_) ==
    CASE pc_ = "post" -> "publish" [] pc_ = "publish" -> "release" [] OTHER -> "finished"

\* self.document.post_process(), and parse() returns the document
PostProcess(t) ==
    /\ scheduler.threads[t].pc = "post"
    /\ Sched([scheduler EXCEPT
                !.anchors = ReadAll(scheduler,
                                    AnchorsRead(scheduler, scheduler.threads[t].handed)),
                !.threads[t].pc = IF scheduler.threads[t].parent = 0 THEN "returned"
                                  ELSE worker_next("post")])

\* Path::canonicalize of the path of a parser
canonicalize(path) == Phys(path)

\* anchor_clone.write().unwrap().set_document(document)
WorkerPublish(t) ==
    /\ scheduler.threads[t].pc = "publish"
    /\ Sched([scheduler EXCEPT
                !.anchors[scheduler.threads[t].anchor] =
                    [@ EXCEPT !.document = Some([path |-> canonicalize(scheduler.threads[t].path),
                                                 imports |-> scheduler.threads[t].handed,
                                                 is_root |-> scheduler.threads[t].is_root]),
                              !.writes = @ + 1,
                              !.writer = t],
                !.threads[t].pc = worker_next("publish")])

\* drop(wg)
WorkerRelease(t) ==
    /\ scheduler.threads[t].pc = "release"
    /\ Sched([scheduler EXCEPT
                !.wgs[scheduler.threads[t].captured] = @ - 1,
                !.threads[t].pc = worker_next("release")])

\* impl ToHtml for Document: the page of a root document, the fragment of
\* an imported one; `inner` is the rendering of the elements
document_to_html(path, is_root, inner) ==
    IF is_root
    THEN <<"<!DOCTYPE html>\n<html><head ", "path='">> \o encode_attribute(path)
         \o <<"'", "><style>", "style.css", "</style></head><body><div class='content'>">>
         \o inner \o <<"</div></body></html>">>
    ELSE <<"<div class='documentImport' document-import=true ", "path='">>
         \o encode_attribute(path) \o <<"'", ">">> \o inner \o <<"</div>">>

\* impl ToHtml for Import
RECURSIVE import_to_html(_, _)
import_to_html(s, a) ==
    IF s.anchors[a].document = None THEN <<>>
    ELSE document_to_html(
             s.anchors[a].document[1].path,
             s.anchors[a].document[1].is_root,
             Flatten([i \in 1..Len(s.anchors[a].document[1].imports) |->
                         import_to_html(s, s.anchors[a].document[1].imports[i])]))

\* to_html of the document parse() of the root parser has returned
root_to_html(s) ==
    document_to_html(
        canonicalize(s.threads[1].path),
        s.threads[1].is_root,
        Flatten([i \in 1..Len(s.threads[1].handed) |->
                    import_to_html(s, s.threads[1].handed[i])]))

\* the caller of parse() renders the document
Render ==
    /\ scheduler.state = "run"
    /\ scheduler.threads[1].pc = "returned"
    /\ Sched([scheduler EXCEPT
                !.anchors = ReadAll(scheduler,
                                    AnchorsRead(scheduler, scheduler.threads[1].handed)),
                !.html = Some(root_to_html(scheduler)),
                !.threads[1].pc = "done"])

NextImport ==
    \/ \E t \in ThreadIds : ImportBegin(t)
    \/ \E t \in ThreadIds : ParseError(t)
    \/ \E t \in ThreadIds : ImportLock(t)
    \/ \E t \in ThreadIds : ImportFind(t)
    \/ \E t \in ThreadIds : ImportCyclic(t)
    \/ \E t \in ThreadIds : ImportPush(t)
    \/ \E t \in ThreadIds : ImportSpawn(t)
    \/ \E t \in ThreadIds : WorkerOpen(t)
    \/ \E t \in ThreadIds : WorkerCreate(t)
    \/ \E t \in ThreadIds : ParseEnd(t)
    \/ \E t \in ThreadIds : JoinDone(t)
    \/ \E t \in ThreadIds : PostProcess(t)
    \/ \E t \in ThreadIds : WorkerPublish(t)
    \/ \E t \in ThreadIds : WorkerRelease(t)
    \/ Render

SpecImport == InitImport /\ [][NextImport]_vars

\* every thread that can take a step takes one in the end: the threads are
\* threads of the operating system
SpecImportFair == SpecImport /\ WF_vars(NextImport)

Workers == {t \in ThreadIds : scheduler.threads[t].parent # 0}

\* C16: under every interleaving of the parsers that call import_document
\* with the same resolved path, at most one call finds the path absent,
\* inserts it and spawns a worker; every other call fails with the cyclic
\* import error and spawns nothing.
C16_AtomicCheckAndInsert ==
    /\ \A c1 \in scheduler.calls, c2 \in scheduler.calls :
          (c1.outcome = "inserted" /\ c2.outcome = "inserted"
           /\ same_path(c1.path, c2.path)) => c1 = c2
    /\ \A u \in Workers, v \in Workers :
          same_path(scheduler.threads[u].path, scheduler.threads[v].path) => u = v
    /\ \A u \in Workers :
          Call(scheduler.threads[u].parent, scheduler.threads[u].path, "inserted")
              \in scheduler.calls

\* a worker and the root have called import_document with the same path at
\* the same time: the worker has inserted it and the root has been refused
C16_Witness ==
    \E u \in Workers, v \in ThreadIds :
        /\ u # v
        /\ Call(u, <<"f">>, "inserted") \in scheduler.calls
        /\ Call(v, <<"f">>, "cyclic") \in scheduler.calls
        /\ scheduler.threads[u].pc = "spawn"

\* C17: within one root parse at most one parser parses a physical path,
\* whatever relative spelling each importing file uses to reach the file.
C17_OneParsePerPhysicalPath ==
    \A u \in ThreadIds, v \in ThreadIds :
        (/\ scheduler.threads[u].parsing /\ scheduler.threads[v].parsing
         /\ Phys(scheduler.threads[u].path) = Phys(scheduler.threads[v].path)) => u = v

\* thread u is a worker spawned, directly or transitively, by thread t
RECURSIVE IsDescendant(_, _)
IsDescendant(u, t) ==
    /\ scheduler.threads[u].parent # 0
    /\ \/ scheduler.threads[u].parent = t
       \/ IsDescendant(scheduler.threads[u].parent, t)

\* parse() of the thread is past wg.wait(): at post_process or behind it
Joined(t) ==
    scheduler.threads[t].pc \in
        {"post", "returned", "done", "publish", "release", "finished"}

C19_SinglePublication ==
    scheduler.state = "run" =>
        \A a \in 1..Len(scheduler.anchors) :
            /\ scheduler.anchors[a].writes <= 1
            /\ scheduler.anchors[a].writes = 1 =>
                  scheduler.anchors[a].writer = scheduler.anchors[a].worker
            /\ ~scheduler.anchors[a].early

\* the root document is rendered with the published documents of two
\* imports, one inside the other
C19_Witness ==
    /\ scheduler.state = "run"
    /\ scheduler.threads[1].pc = "done"
    /\ \E a \in 1..Len(scheduler.anchors) :
          /\ scheduler.anchors[a].writes = 1
          /\ scheduler.anchors[a].document[1].imports # <<>>
          /\ \A i \in 1..Len(scheduler.anchors[a].document[1].imports) :
                scheduler.anchors[scheduler.anchors[a].document[1].imports[i]].writes = 1

SomeWorkerFailed == \E t \in Workers : scheduler.threads[t].pc = "panicked"

\* the root has rendered its document; the anchor of every failed worker is
\* empty and its Import block renders as the empty string
RenderedWithEmptyImports ==
    /\ scheduler.threads[1].pc = "done"
    /\ scheduler.html = Some(root_to_html(scheduler))
    /\ \A t \in Workers :
          scheduler.threads[t].pc = "panicked" =>
              /\ scheduler.anchors[scheduler.threads[t].anchor].document = None
              /\ import_to_html(scheduler, scheduler.threads[t].anchor) = <<>>

\* C20: if an import worker fails when it starts, its wait-group handle is
\* released all the same, so the join of the parent completes and the
\* document is rendered; the anchor of the worker keeps document = None and
\* the Import block renders as the empty string.
C20_WorkerFailure == SomeWorkerFailed ~> RenderedWithEmptyImports

\* the root document is rendered after the worker for "x" has failed
C20_Witness ==
    /\ scheduler.state = "run"
    /\ SomeWorkerFailed
    /\ RenderedWithEmptyImports
    /\ Len(scheduler.threads[1].handed) = 2

\* the thread holds the mutex of the seen paths
HoldsLock(t) == scheduler.lock = t

\* C21: the mutex of the seen paths is held only for the check and the
\* insert: no thread holds it while it reads a file, parses, writes to an
\* output, spawns a worker or waits on the wait-group.
C21_LockScope ==
    scheduler.state = "run" =>
        \A t \in ThreadIds :
            HoldsLock(t) => scheduler.threads[t].pc \in {"find", "push"}

\* the same, apart from the diagnostic of a cyclic import
C21_LockScopeApartFromDiagnostic ==
    scheduler.state = "run" =>
        \A t \in ThreadIds :
            HoldsLock(t) => scheduler.threads[t].pc \in {"find", "push", "cyclic"}

\* the parser created for `path` with the seen paths `seen` imports the
\* statements `todo` one after the other, each worker running to its end
\* before the next statement is parsed: the rendering of the imports and
\* the seen paths afterwards
RECURSIVE ImportsInTurn(_, _, _)
ImportsInTurn(path, todo, seen) ==
    IF todo = <<>> \/ Head(todo) = ParseErrorHere THEN [html |-> <<>>, seen |-> seen]
    ELSE With(transform_path([path |-> Some(path)], Head(todo)), LAMBDA full :
        IF ~exists(full) \/ \E i \in 1..Len(seen) : same_path(seen[i], full)
        THEN ImportsInTurn(path, Tail(todo), seen)
        ELSE With(ImportsInTurn(full, FileImports(Phys(full)), Append(seen, full)),
                  LAMBDA child :
             With(ImportsInTurn(path, Tail(todo), child.seen), LAMBDA rest :
                [html |-> <<"<div class='documentImport' document-import=true ", "path='">>
                          \o encode_attribute(canonicalize(full)) \o <<"'", ">">>
                          \o child.html \o <<"</div>">> \o rest.html,
                 seen |-> rest.seen])))

\* the rendering of the root document of `root` when its workers run in turn
HtmlInTurn(root) ==
    <<"<!DOCTYPE html>\n<html><head ", "path='">>
    \o encode_attribute(canonicalize(root))
    \o <<"'", "><style>", "style.css", "</style></head><body><div class='content'>">>
    \o ImportsInTurn(root, FileImports(root), <<root>>).html
    \o <<"</div></body></html>">>

\* C22: for a fixed set of source files that can all be read, the document
\* returned by parse() and its rendering are the same under every
\* interleaving of the import workers: the rendering is the one obtained
\* when the workers run in turn, also when two files import the same third.
C22_DeterminismUnderScheduling ==
    (/\ scheduler.state = "run"
     /\ scheduler.threads[1].pc = "done"
     /\ ~SomeWorkerFailed) =>
        scheduler.html = Some(HtmlInTurn(scheduler.threads[1].path))

\* the root "1" is rendered as it is when its workers run in turn
C22_InTurnReached ==
    /\ scheduler.state = "run"
    /\ scheduler.threads[1].pc = "done"
    /\ scheduler.threads[1].path = <<"1">>
    /\ scheduler.html = Some(HtmlInTurn(<<"1">>))

\* the path import statement number n of the file of thread t resolves to
StatementPath(t, n) ==
    transform_path([path |-> Some(scheduler.threads[t].path)],
                   FileImports(Phys(scheduler.threads[t].path))[n])

\* C23: the Import blocks of a document stand in the order of their import
\* statements in the source, each with the anchor of the worker spawned for
\* the path of its statement, and an anchor receives the document of that
\* worker only, in whatever order the workers complete.
C23_ImportPlacement ==
    scheduler.state = "run" =>
        \A t \in ThreadIds :
            \A i \in 1..Len(scheduler.threads[t].handed) :
                \E a \in {scheduler.anchors[scheduler.threads[t].handed[i]]} :
                    /\ a.at \in 1..Len(FileImports(Phys(scheduler.threads[t].path)))
                    /\ \A j \in 1..(i - 1) :
                          scheduler.anchors[scheduler.threads[t].handed[j]].at < a.at
                    /\ scheduler.threads[a.worker].parent = t
                    /\ scheduler.threads[a.worker].path = StatementPath(t, a.at)
                    /\ a.document # None =>
                          a.document[1].path = canonicalize(StatementPath(t, a.at))

\* the worker of the second import of the root has published its document
\* before the worker of the first
C23_Witness ==
    /\ scheduler.state = "run"
    /\ scheduler.threads[1].handed = <<1, 2>>
    /\ scheduler.anchors[1].writes = 0
    /\ scheduler.anchors[2].writes = 1

\* the number of the statement of the file of thread t on which parse_block
\* returns an error (0: none)
ErrorAt(t) ==
    With(FileImports(Phys(scheduler.threads[t].path)), LAMBDA statements :
        IF \E n \in 1..Len(statements) : statements[n] = ParseErrorHere
        THEN CHOOSE n \in 1..Len(statements) : statements[n] = ParseErrorHere
        ELSE 0)

\* parse() of thread t has met the error of its file
MetError(t) ==
    /\ ErrorAt(t) > 0
    /\ scheduler.threads[t].pc # "start"
    /\ StatementNumber(scheduler.threads[t]) >= ErrorAt(t)

\* C24: when parse_block returns an error at the top level of a file,
\* parse() consumes no more input, joins its workers and runs
\* post-processing all the same, and its document holds exactly the blocks
\* parsed before the error; the error of an imported file changes neither
\* the elements of the importing document nor the documents of the other
\* imports.
C24_TopLevelError ==
    scheduler.state = "run" =>
        /\ \A t \in ThreadIds :
              MetError(t) =>
                  /\ scheduler.threads[t].todo = <<>>
                  /\ scheduler.threads[t].pc # "panicked"
                  /\ \A i \in 1..Len(scheduler.threads[t].handed) :
                        scheduler.anchors[scheduler.threads[t].handed[i]].at < ErrorAt(t)
                  /\ Joined(t) =>
                        \A u \in ThreadIds :
                            IsDescendant(u, t) => scheduler.threads[u].pc = "finished"
                  /\ scheduler.threads[t].pc = "finished" =>
                        scheduler.anchors[scheduler.threads[t].anchor].document =
                            Some([path |-> canonicalize(scheduler.threads[t].path),
                                  imports |-> scheduler.threads[t].handed,
                                  is_root |-> FALSE])
        /\ (/\ scheduler.threads[1].pc = "done"
            /\ scheduler.threads[1].path = <<"6">>) =>
                scheduler.html = Some(HtmlInTurn(<<"6">>))

\* the root "6" is rendered: the document of its import "m" holds the one
\* import in front of the error of "m", and the import "f" after "m" is
\* there with its document
C24_Witness ==
    /\ scheduler.state = "run"
    /\ scheduler.threads[1].pc = "done"
    /\ Len(scheduler.threads[1].handed) = 2
    /\ \E t \in Workers :
          /\ MetError(t)
          /\ scheduler.threads[t].pc = "finished"
          /\ Len(scheduler.threads[t].handed) = 1
          /\ scheduler.anchors[scheduler.threads[t].handed[1]].document # None
    /\ scheduler.anchors[scheduler.threads[1].handed[2]].document =
           Some([path |-> <<"f">>, imports |-> <<>>, is_root |-> FALSE])

\* the number of pages (renderings of a root document) in the tokens
RECURSIVE Pages(_)
Pages(html) ==
    IF html = <<>> THEN 0
    ELSE (IF Head(html) = "<!DOCTYPE html>\n<html><head " THEN 1 ELSE 0) + Pages(Tail(html))

\* C25: in the document tree parse() of a parser made by new_from_file
\* returns, the returned document has is_root = true, and every document
\* reached through an ImportAnchor, at any depth, has is_root = false and
\* renders as a <div class='documentImport' ...> fragment, never as a page.
C25_ExactlyOneRoot ==
    scheduler.state = "run" =>
        /\ scheduler.threads[1].pc \in {"returned", "done"} => scheduler.threads[1].is_root
        /\ \A a \in 1..Len(scheduler.anchors) :
              scheduler.anchors[a].document # None =>
                  /\ ~scheduler.anchors[a].document[1].is_root
                  /\ Head(import_to_html(scheduler, a)) =
                         "<div class='documentImport' document-import=true "
                  /\ Pages(import_to_html(scheduler, a)) = 0
        /\ scheduler.html # None =>
              /\ Head(scheduler.html[1]) = "<!DOCTYPE html>\n<html><head "
              /\ Pages(scheduler.html[1]) = 1

\* the root "2" is rendered with the documents of its imports, one of them
\* with the document of an import of its own
C25_Witness ==
    /\ scheduler.state = "run"
    /\ scheduler.html # None
    /\ scheduler.threads[1].path = <<"2">>
    /\ Len(scheduler.threads[1].handed) = 2
    /\ \E a \in 1..Len(scheduler.anchors) :
          /\ scheduler.anchors[a].document # None
          /\ scheduler.anchors[a].document[1].imports # <<>>
          /\ \A i \in 1..Len(scheduler.anchors[a].document[1].imports) :
                scheduler.anchors[scheduler.anchors[a].document[1].imports[i]].document # None

-----------------------------------------------------------------------------
(* The renderer (format/html.rs): to_html of the elements of a document.   *)
(* A rendering is a sequence of tokens: a character of the input is a      *)
(* token of its own, an entity is one token, and so is every fragment of   *)
(* a format! template.                                                     *)

MaxText == 2
MaxCells == 2
MaxRows == 2

\* the characters of the textual input of the rendered elements
RenderChars == {"a", "<", "&", "'"}

Texts == SeqsUpTo(MaxText, RenderChars) \ {<<>>}

PlainText(value) == [kind |-> "PlainText", value |-> value]
MonospaceText(value) == [kind |-> "MonospaceText", value |-> value]
Url(url, description) == [kind |-> "Url", url |-> url, description |-> description]
Image(url) == [kind |-> "Image", url |-> url, metadata |-> None]
Placeholder(name, value) == [kind |-> "Placeholder", name |-> name, value |-> value]
BibReference(key) == [kind |-> "BibReference", key |-> key]
TextLine(subtext) == [kind |-> "TextLine", subtext |-> subtext]
BibEntry(key, visible) == [kind |-> "BibEntry", key |-> key, visible |-> visible]
Paragraph(elements) == [kind |-> "Paragraph", elements |-> elements]
Cell(text) == [kind |-> "Cell", text |-> text]
Row(cells) == [kind |-> "Row", cells |-> cells]
Table(header, rows) == [kind |-> "Table", header |-> header, rows |-> rows]

Urls == {Url(u, d) : u \in Texts, d \in {None} \cup {Some(t) : t \in Texts}}

Inlines ==
    {PlainText(v) : v \in Texts} \cup {MonospaceText(v) : v \in Texts}
    \cup Urls \cup {Image(u) : u \in Urls}
    \cup {Placeholder(n, v) : n \in Texts, v \in {None, Some(PlainText(<<"a">>))}}
    \cup {BibReference(k) : k \in Texts}

\* the lines of a paragraph: a text line, or the entry of a bibliography
\* that is not shown
ParagraphLines ==
    {TextLine(<<PlainText(<<c>>)>>) : c \in {"a", "<"}} \cup {BibEntry(<<"a">>, FALSE)}

Paragraphs == {Paragraph(ls) : ls \in SeqsUpTo(MaxLines, ParagraphLines) \ {<<>>}}

Rows == {Row(cs) : cs \in SeqsUpTo(MaxCells, {Cell(TextLine(<<PlainText(<<c>>)>>)) : c \in {"a", "b"}})}

Tables == {Table(h, rs) : h \in Rows, rs \in SeqsUpTo(MaxRows, Rows)}

\* minify::html::minify: the fragments and the characters of the input
\* modelled here hold no white space to remove
minify(html) == html

\* BibReference::get_formatted: the formatted index of the entry
get_formatted(reference) == <<"citation">>

\* impl ToHtml for PlainText, MonospaceText, Url, Image, Placeholder and
\* BibReference (an image without metadata has the empty style)
RECURSIVE inline_to_html(_)
inline_to_html(e) ==
    CASE e.kind = "PlainText" -> encode_minimal(e.value)
      [] e.kind = "MonospaceText" ->
            <<"<code class='inlineCode'>">> \o encode_minimal(e.value) \o <<"</code>">>
      [] e.kind = "Url" ->
            IF e.description # None
            THEN <<"<a href='">> \o e.url \o <<"'>">>
                 \o encode_minimal(e.description[1]) \o <<"</a>">>
            ELSE <<"<a href='">> \o e.url \o <<"'>">> \o encode_minimal(e.url) \o <<"</a>">>
      [] e.kind = "Image" ->
            IF e.url.description # None
            THEN minify(<<"<div class='figure'><a href=">> \o encode_attribute(e.url.url)
                        \o <<"><img src='">> \o encode_attribute(e.url.url)
                        \o <<"' alt='">> \o encode_attribute(e.url.description[1])
                        \o <<"' style='", "'/></a><label class='imageDescription'>">>
                        \o encode_attribute(e.url.description[1])
                        \o <<"</label></div>">>)
            ELSE <<"<a href=">> \o e.url.url \o <<"><img src='">> \o e.url.url
                 \o <<"' style='", "'/></a>">>
      [] e.kind = "Placeholder" ->
            IF e.value # None THEN inline_to_html(e.value[1])
            ELSE <<"Unknown placeholder '">> \o encode_minimal(e.name) \o <<"'!">>
      [] e.kind = "BibReference" ->
            <<"<sup><a href='#">> \o e.key \o <<"'>">> \o get_formatted(e)
            \o <<"</a></sup>">>

\* impl ToHtml for TextLine, and for a BibEntry that is not visible
line_to_html(line) ==
    IF line.kind = "BibEntry" /\ ~line.visible THEN <<>>
    ELSE Flatten([k \in 1..Len(line.subtext) |-> inline_to_html(line.subtext[k])])

\* macro combine_with_lb, with $b.to_html() for b
combine_with_lb(a, b) == IF Len(a) > 0 THEN a \o <<"<br>">> \o b ELSE b

\* impl ToHtml for Paragraph: the fold of combine_with_lb over the elements
RECURSIVE paragraph_fold(_, _)
paragraph_fold(a, elements) ==
    IF elements = <<>> THEN a
    ELSE paragraph_fold(combine_with_lb(a, line_to_html(Head(elements))), Tail(elements))

paragraph_to_html(p) ==
    <<"<div class='paragraph'>">> \o paragraph_fold(<<>>, p.elements) \o <<"</div>">>

\* the cell of a body row is rendered as a header cell
cell_to_html_th(cell) == <<"<th>">> \o line_to_html(cell.text) \o <<"</th>">>

\* impl ToHtml for Cell
cell_to_html(cell) == <<"<td>">> \o line_to_html(cell.text) \o <<"</td>">>

\* impl ToHtml for Row
row_to_html(row) ==
    <<"<tr>">> \o Flatten([k \in 1..Len(row.cells) |-> cell_to_html(row.cells[k])])
    \o <<"</tr>">>

\* impl ToHtml for Table
table_to_html(table) ==
    <<"<div class='tableWrapper'><table><tr>">>
    \o Flatten([k \in 1..Len(table.header.cells) |->
                   <<"<th>">> \o line_to_html(table.header.cells[k].text) \o <<"</th>">>])
    \o <<"<tr>">>
    \o Flatten([k \in 1..Len(table.rows) |-> row_to_html(table.rows[k])])
    \o <<"</table></div>">>

\* impl ToHtml for Element, Block and Inline: the match on the variant
to_html(e) ==
    CASE e.kind = "Paragraph" -> paragraph_to_html(e)
      [] e.kind = "Table" -> table_to_html(e)
      [] OTHER -> inline_to_html(e)

InitRender ==
    /\ \E e \in Inlines \cup Paragraphs \cup Tables :
          render = [state |-> "element", element |-> e, html |-> <<>>]
    /\ parser = create(None, <<>>, FALSE, <<>>)
    /\ overflow_checks = TRUE
    /\ position = None
    /\ lastOp = Op("create", 0, TRUE, 0)
    /\ pc = "render"
    /\ list = NoList
    /\ scheduler = NoScheduler

\* element.to_html()
ToHtml ==
    /\ render.state = "element"
    /\ render' = [render EXCEPT !.state = "html", !.html = to_html(render.element)]
    /\ UNCHANGED <<parser, overflow_checks, position, lastOp, pc, list, scheduler>>

NextRender == ToHtml

SpecRender == InitRender /\ [][NextRender]_vars

\* the fragments of the templates that open an attribute value
AttributeOpeners ==
    {"<a href='", "<a href=", "<div class='figure'><a href=", "><img src='", "' alt='",
     "<sup><a href='#"}

\* the token at position i is a character of the input as it was read
Raw(html, i) == html[i] \in RenderChars

\* the token at position i stands in the attribute value opened by the
\* last fragment of a template in front of it
InAttribute(html, i) ==
    \E j \in 1..(i - 1) :
        /\ html[j] \in AttributeOpeners
        /\ \A k \in (j + 1)..(i - 1) : Raw(html, k) \/ html[k] \in {"&lt;", "&gt;", "&amp;", "&quot;", "&#x27;"}

\* no character < or & of the input is in the rendering as it was read, and
\* no quote of the input is so in an attribute value
Escaped(html) ==
    \A i \in 1..Len(html) :
        /\ html[i] \notin {"<", "&"}
        /\ InAttribute(html, i) => html[i] # "'"

TextualKinds == {"PlainText", "MonospaceText", "Url", "Image", "Placeholder", "BibReference"}

\* C26: for every node built from textual input (plain text, monospace,
\* url and its description, image url, placeholder name, bibliography key)
\* to_html emits no unescaped < or & that comes from the input, nor an
\* unescaped quote of the input in an attribute value.
C26_HtmlEscaping ==
    (render.state = "html" /\ render.element.kind \in TextualKinds) =>
        Escaped(render.html)

\* the same for the nodes whose text goes through encode_minimal or
\* encode_attribute: plain text, monospace, the name of a placeholder, and
\* the url and the description of an image that has a description
C26_EscapedWhereEncoded ==
    (/\ render.state = "html"
     /\ \/ render.element.kind \in {"PlainText", "MonospaceText", "Placeholder"}
        \/ render.element.kind = "Image" /\ render.element.url.description # None) =>
        Escaped(render.html)

\* the renderings, each after a <br> but the first
RECURSIVE SeparatedByBr(_)
SeparatedByBr(renderings) ==
    IF Len(renderings) = 1 THEN renderings[1]
    ELSE SeparatedByBr(SubSeq(renderings, 1, Len(renderings) - 1))
         \o <<"<br>">> \o renderings[Len(renderings)]

\* the number of tokens <br> in the rendering
RECURSIVE Separators(_)
Separators(html) ==
    IF html = <<>> THEN 0
    ELSE (IF Head(html) = "<br>" THEN 1 ELSE 0) + Separators(Tail(html))

\* C27: the inner HTML of a Paragraph with n >= 1 elements is the
\* renderings of the elements in order with exactly one <br> between each
\* adjacent pair, n - 1 in all, whatever the elements render to, the empty
\* string included.
C27_ParagraphSeparators ==
    (render.state = "html" /\ render.element.kind = "Paragraph") =>
        /\ render.html =
              <<"<div class='paragraph'>">>
              \o SeparatedByBr([k \in 1..Len(render.element.elements) |->
                                   line_to_html(render.element.elements[k])])
              \o <<"</div>">>
        /\ Separators(render.html) = Len(render.element.elements) - 1

\* the same for the paragraphs of which no element but the last renders as
\* the empty string
C27_SeparatorsAfterNonEmpty ==
    (/\ render.state = "html" /\ render.element.kind = "Paragraph"
     /\ \A k \in 1..(Len(render.element.elements) - 1) :
           line_to_html(render.element.elements[k]) # <<>>) =>
        /\ render.html =
              <<"<div class='paragraph'>">>
              \o SeparatedByBr([k \in 1..Len(render.element.elements) |->
                                   line_to_html(render.element.elements[k])])
              \o <<"</div>">>
        /\ Separators(render.html) = Len(render.element.elements) - 1

\* the string of the tokens
RECURSIVE Join(_)
Join(html) == IF html = <<>> THEN "" ELSE Head(html) \o Join(Tail(html))

\* the text of a cell as it is rendered
CellText(cell) == encode_minimal(cell.text.subtext[1].value)

\* the cells of a row, each between the tags `open` and `close`
CellsBetween(row, open, close) ==
    Flatten([k \in 1..Len(row.cells) |-> <<open>> \o CellText(row.cells[k]) \o <<close>>])

\* C28: a Table renders as <div class='tableWrapper'><table>, <tr>, one
\* <th> per header cell, <tr>, each body row as <tr> with one <td> per cell
\* and </tr>, and </table></div>; no header cell is rendered as <td> and no
\* body cell as <th>, and rows and cells keep their order.
C28_TableRendering ==
    (render.state = "html" /\ render.element.kind = "Table") =>
        Join(render.html) =
            Join(<<"<div class='tableWrapper'><table>", "<tr>">>
                 \o CellsBetween(render.element.header, "<th>", "</th>")
                 \o <<"<tr>">>
                 \o Flatten([r \in 1..Len(render.element.rows) |->
                                <<"<tr>">>
                                \o CellsBetween(render.element.rows[r], "<td>", "</td>")
                                \o <<"</tr>">>])
                 \o <<"</table></div>">>)

\* a table of two header cells and two body rows of two different cells
\* each is rendered
C28_Witness ==
    /\ render.state = "html"
    /\ render.element.kind = "Table"
    /\ Len(render.element.header.cells) = 2
    /\ Len(render.element.rows) = 2
    /\ \A r \in 1..2 :
          /\ Len(render.element.rows[r].cells) = 2
          /\ render.element.rows[r].cells[1] # render.element.rows[r].cells[2]
    /\ render.element.rows[1] # render.element.rows[2]

\* C29: a Placeholder whose value is None renders as the message
\* Unknown placeholder 'name'! in text encoding: the name and the quotes
\* around it are entity-encoded, the quotes as &#x27;.
C29_UnknownPlaceholder ==
    (/\ render.state = "html"
     /\ render.element.kind = "Placeholder"
     /\ render.element.value = None) =>
        Join(render.html) =
            "Unknown placeholder &#x27;" \o Join(encode_minimal(render.element.name))
            \o "&#x27;!"

\* the same with the quotes around the name as the template has them
C29_UnknownPlaceholderNameEncoded ==
    (/\ render.state = "html"
     /\ render.element.kind = "Placeholder"
     /\ render.element.value = None) =>
        Join(render.html) =
            "Unknown placeholder '" \o Join(encode_minimal(render.element.name)) \o "'!"

-----------------------------------------------------------------------------
(* parse_section over a long run of hashes, one turn of its loop at a time *)

MaxHashes == 257

HashRuns == {1, 2, 3} \cup 254..MaxHashes

\* a header line: n hashes, a space, a word
HashSource(n) == [i \in 1..n |-> HASH] \o <<" ", "a", LB>>

\* the parser Parser::create returns for the one line of HashSource(n),
\* in either build profile; parse_section is called at index 0
InitHash ==
    /\ \E n \in HashRuns :
          parser = [create(None, <<>>, FALSE, <<>>) EXCEPT
                       !.text = HashSource(n), !.current_char = HASH]
    /\ overflow_checks \in BOOLEAN
    /\ position = None
    /\ lastOp = [op |-> "create", size |-> 0, ok |-> TRUE, val |-> None]
    /\ pc = "section"
    /\ list = NoList
    /\ scheduler = NoScheduler
    /\ render = NoRender

\* let start_index = self.index; seek_whitespace; check_special(&HASH);
\* let mut size = 1
SectionBegin ==
    /\ pc = "section"
    /\ position' = Some(parser.index)
    /\ parser' = seek_whitespace(parser)
    /\ IF check_special(parser', HASH)
       THEN /\ pc' = "hashes"
            /\ lastOp' = [op |-> "parse_section", size |-> 1, ok |-> TRUE, val |-> None]
       ELSE /\ pc' = "done"
            /\ lastOp' = [op |-> "parse_section", size |-> 0, ok |-> FALSE, val |-> None]
    /\ UNCHANGED <<overflow_checks, list, scheduler, render>>

\* one turn of while let Some(_) = self.next_char() { .. size += 1 }
HashStep ==
    /\ pc = "hashes"
    /\ \E h \in {hash_step(parser, lastOp.size)} :
          /\ parser' = h.p
          /\ lastOp' = [lastOp EXCEPT !.size = h.size]
          /\ pc' = IF h.p.panicked THEN "panicked"
                   ELSE IF h.more THEN "hashes" ELSE "header"
    /\ UNCHANGED <<overflow_checks, position, list, scheduler, render>>

\* the rest of parse_section: the test of the size, the header, the body
SectionEnd ==
    /\ pc = "header"
    /\ \E r \in {section_after_hashes(parser, lastOp.size, position[1])} :
          /\ parser' = r.p
          /\ lastOp' = [lastOp EXCEPT !.ok = r.ok, !.val = r.val]
          /\ pc' = "done"
    /\ UNCHANGED <<overflow_checks, position, list, scheduler, render>>

NextHash ==
    \/ SectionBegin
    \/ HashStep
    \/ SectionEnd

SpecHash == InitHash /\ [][NextHash]_vars

\* the number of hashes at the start of the text
OpeningHashes(text) ==
    CHOOSE n \in 0..Len(text) :
        /\ \A i \in 1..n : text[i] = HASH
        /\ n = Len(text) \/ text[n + 1] # HASH

\* C30: the header of every Section parse_section produces has as size the
\* number of consecutive hashes that opened it, a number of 1..255; a run
\* of 256 hashes or more yields no Section whose size is the count reduced
\* modulo 256.
C30_HeaderSizeRange ==
    (pc = "done" /\ lastOp.op = "parse_section" /\ lastOp.ok) =>
        /\ lastOp.val.header.size = OpeningHashes(parser.text)
        /\ lastOp.val.header.size \in 1..U8_MAX

\* the same for the build in which an overflow of the addition panics
C30_HeaderSizeRangeWithChecks ==
    (pc = "done" /\ lastOp.op = "parse_section" /\ lastOp.ok /\ overflow_checks) =>
        /\ lastOp.val.header.size = OpeningHashes(parser.text)
        /\ lastOp.val.header.size \in 1..U8_MAX

-----------------------------------------------------------------------------
(* get_string_until and check_special_sequence called by a caller that     *)
(* moves the cursor with next_char and revert_to                            *)

\* the break sets and the error sets of the calls
BreakSets == {{LB}}
ErrSets == {{}, {BACKTICK}}

\* self.get_string_until(break_at, err_at)
GetStringUntil ==
    /\ ~parser.panicked /\ parser.index < Len(parser.text)
    /\ \E break_at \in BreakSets, err_at \in ErrSets :
         \E r \in {get_string_until(Fresh(parser), break_at, err_at)} :
            /\ parser' = r.p
            /\ lastOp' = [op |-> "get_string_until", arg |-> parser.index, ok |-> r.ok,
                          err_index |-> r.err_index, str |-> r.str,
                          break_at |-> break_at, err_at |-> err_at,
                          previous_char |-> parser.previous_char]
    /\ UNCHANGED <<overflow_checks, position, pc, list, scheduler, render>>

NextString ==
    \/ NextChar
    \/ RevertTo
    \/ GetStringUntil
    \/ CheckSpecialSequence

SpecString == InitCursor /\ [][NextString]_vars

\* the cursor tests the escape on the character in front of the current
\* one: the character at the 0-based index i is one of `chars` and the one
\* in front of it is not the escape character
UnescapedOf(text, i, chars) ==
    text[i + 1] \in chars /\ ~(i > 0 /\ text[i] = SPECIAL_ESCAPE)

\* the first index from `from` on with an unescaped character of `chars`,
\* or the length of the text
FirstUnescaped(text, from, chars) ==
    IF \E i \in from..(Len(text) - 1) : UnescapedOf(text, i, chars)
    THEN CHOOSE i \in from..(Len(text) - 1) :
            /\ UnescapedOf(text, i, chars)
            /\ \A j \in from..(i - 1) : ~UnescapedOf(text, j, chars)
    ELSE Len(text)

\* where the scan of the last get_string_until has to stop
ScanStop == FirstUnescaped(parser.text, lastOp.arg, lastOp.break_at \cup lastOp.err_at)

\* the last operation is a get_string_until entered with the cursor on a
\* character of the text and previous_char the character in front of it
GetStringUntilCalled ==
    /\ lastOp.op = "get_string_until"
    /\ lastOp.arg > 0 => lastOp.previous_char = parser.text[lastOp.arg]

C32_EndOfInput ==
    (GetStringUntilCalled /\ ScanStop = Len(parser.text)) =>
        /\ lastOp.ok
        /\ lastOp.str = SubSeq(parser.text, lastOp.arg + 1, Len(parser.text))

\* the same for the inputs that do not end with a character of err_set
C32_EndOfInputNotOnErrChar ==
    (/\ GetStringUntilCalled /\ ScanStop = Len(parser.text)
     /\ parser.text[Len(parser.text)] \notin lastOp.err_at) =>
        /\ lastOp.ok
        /\ lastOp.str = SubSeq(parser.text, lastOp.arg + 1, Len(parser.text))

\* the sequence of TestSequences of the given length
TestSequence(length) == CHOOSE sq \in TestSequences : Len(sq) = length

\* the text holds `sequence` from the 0-based index i on
HoldsAt(text, i, sequence) ==
    /\ i + Len(sequence) <= Len(text)
    /\ \A k \in 1..Len(sequence) : text[i + k] = sequence[k]

\* the step is a check_special_sequence entered with the cursor on a
\* character of the text and previous_char the character in front of it
SequenceChecked ==
    /\ lastOp'.op = "check_special_sequence"
    /\ parser.index < Len(parser.text)
    /\ parser.index > 0 => parser.previous_char = parser.text[parser.index]

\* what C33 says of a check of `sequence` that has returned `ret`
SequenceResult(sequence, ret) ==
    /\ ret = (/\ HoldsAt(parser'.text, parser.index, sequence)
              /\ ~(parser.index > 0 /\ parser.text[parser.index] = SPECIAL_ESCAPE))
    /\ ~ret => /\ parser'.index = parser.index
               /\ parser'.current_char = parser.current_char
    /\ ret => parser'.index = parser.index + Len(sequence) - 1

\* C33: check_special_sequence(S) returns true if and only if the text
\* holds S from the current index on and the current character is not
\* escaped, wherever S lies in the input, at its very end too; if it
\* returns false the index and current_char are those of the entry, if it
\* returns true the cursor rests on the last character of S.
C33_CheckSpecialSequence ==
    [][SequenceChecked => SequenceResult(TestSequence(lastOp'.arg), lastOp'.ok)]_vars

\* the same where a character follows the sequence in the text, or the
\* text does not hold the sequence
C33_SequenceInsideTheInput ==
    [][(/\ SequenceChecked
        /\ ~(/\ HoldsAt(parser'.text, parser.index, TestSequence(lastOp'.arg))
             /\ parser.index + lastOp'.arg = Len(parser'.text)))
       => SequenceResult(TestSequence(lastOp'.arg), lastOp'.ok)]_vars

\* parse() of the root has returned
RootReturned == scheduler.threads[1].pc \in {"returned", "done"}

\* no thread is left waiting: every worker has finished or failed
AllWorkersOver ==
    \A t \in Workers : scheduler.threads[t].pc \in {"finished", "panicked"}

\* C34: for files whose parsing terminates and threads that are scheduled
\* fairly, parse() of the root parser returns in the end, and no parser
\* waits forever on its wait-group or on the mutex of the seen paths,
\* whatever the imports: a file that imports itself, files that import
\* each other, two files that import the same third.
C34_JoinLiveness == <>(RootReturned /\ AllWorkersOver)

\* the root "4" has returned: its import p imports q, which imports p
C34_Witness ==
    /\ scheduler.state = "run"
    /\ RootReturned /\ AllWorkersOver
    /\ scheduler.threads[1].path = <<"4">>
    /\ Len(scheduler.threads) = 3
    /\ \E t \in Workers : Call(t, <<"p">>, "cyclic") \in scheduler.calls

\* the positions of the seen paths that hold the path
Occurrences(path) == {i \in 1..Len(scheduler.paths) : scheduler.paths[i] = path}

\* C38: in every reachable state, under every interleaving of the parsers
\* and the workers, the shared collection of the seen paths, which
\* get_paths returns, holds every resolved path at most once.
C38_SeenPathsIsSet ==
    scheduler.state = "run" =>
        \A i \in 1..Len(scheduler.paths) :
            Cardinality(Occurrences(scheduler.paths[i])) <= 1

\* a path is among the seen paths once for the import_document that has
\* inserted it and once more for the parser created for it
C38_SeenPathsAtMostTwice ==
    scheduler.state = "run" =>
        \A i \in 1..Len(scheduler.paths) :
            /\ Cardinality(Occurrences(scheduler.paths[i])) <= 2
            /\ Cardinality(Occurrences(scheduler.paths[i])) = 2 =>
                  \E t \in Workers :
                      /\ scheduler.threads[t].path = scheduler.paths[i]
                      /\ scheduler.threads[t].parsing

\* C39: in every state reached by next_char, skip_char, revert_to and
\* check_special_sequence in which 0 < index < len(text), previous_char is
\* text[index - 1]: after a revert to the start of a production the
\* escape tests at that position answer as they did before.
C39_CursorConsistency ==
    (~parser.panicked /\ 0 < parser.index /\ parser.index < Len(parser.text)) =>
        parser.previous_char = parser.text[parser.index]

\* the same for the states that next_char or skip_char has produced
C39_ConsistentAfterNextChar ==
    (/\ ~parser.panicked /\ 0 < parser.index /\ parser.index < Len(parser.text)
     /\ lastOp.op \in {"next_char", "skip_char"}) =>
        parser.previous_char = parser.text[parser.index]

\* what the call of parse_block noted in the trace entry e has before it
RestAt(e) == SubSeq(parser.text, e.index + 1, Len(parser.text))

\* the entry e is a call of parse_block that has reached parse_section
SectionTried(e) == ~e.pending

\* parse_section has failed in the call e and has set section_return itself:
\* parse_import sets Some(0), a section that has succeeded leaves the Err
\* of its loop behind
SignalSet(e) ==
    /\ SectionTried(e) /\ ~e.ok
    /\ e.section_return # None /\ e.section_return[1] > 0

\* C40: parse_section sets section_return only when it has read a run of
\* hashes followed by whitespace whose size is <= section_nesting; a run
\* of hashes that no whitespace follows makes it fail with section_return
\* unchanged.
C40_UnwindOnlyForHeaders ==
    \A k \in 1..Len(parser.trace) :
        \E e \in {parser.trace[k]} :
           /\ SignalSet(e) =>
                 /\ IsHeaderLine(RestAt(e))
                 /\ LeadingHashes(RestAt(e)) <= e.section_nesting
           /\ (/\ SectionTried(e)
               /\ LeadingHashes(RestAt(e)) >= 1
               /\ ~IsHeaderLine(RestAt(e))) => e.section_return = None

\* section_return is set exactly for the runs of hashes whose size is
\* <= section_nesting, whatever follows them
C40_UnwindForSmallRuns ==
    \A k \in 1..Len(parser.trace) :
        \E e \in {parser.trace[k]} :
           /\ SignalSet(e) =>
                 /\ e.section_return = Some(LeadingHashes(RestAt(e)))
                 /\ LeadingHashes(RestAt(e)) <= e.section_nesting
           /\ (/\ SectionTried(e)
               /\ LeadingHashes(RestAt(e)) >= 1
               /\ LeadingHashes(RestAt(e)) > e.section_nesting
               /\ ~IsHeaderLine(RestAt(e))) => e.section_return = None
           /\ (/\ SectionTried(e)
               /\ LeadingHashes(RestAt(e)) >= 1
               /\ LeadingHashes(RestAt(e)) <= e.section_nesting) =>
                 /\ ~e.ok
                 /\ e.section_return = Some(LeadingHashes(RestAt(e)))

\* section_nesting is the top of the stack, 0 for the empty stack, and the
\* stack grows strictly from bottom to top
StackOk(section_nesting, sections) ==
    /\ section_nesting = (IF sections = <<>> THEN 0 ELSE Last(sections))
    /\ \A i \in 1..Len(sections) : \A j \in 1..Len(sections) :
          i < j => sections[i] < sections[j]

\* the calls of parse_block noted behind the k-th one that were entered
\* with at most as many open sections as it
LaterOutside(k) ==
    {j \in (k + 1)..Len(parser.trace) :
        Len(parser.trace[j].sections) <= Len(parser.trace[k].sections)}

\* the first of a non-empty set of positions of the trace
First(S) == CHOOSE x \in S : \A y \in S : x <= y

\* the call k has returned a section to a loop of a section that then
\* called parse_block again
ClosedInside(k) ==
    /\ parser.trace[k].ok /\ parser.trace[k].kind = "Section"
    /\ LaterOutside(k) # {}
    /\ Len(parser.trace[First(LaterOutside(k))].sections) = Len(parser.trace[k].sections)

\* C36: at the entry and the return of every call of parse_block
\* section_nesting is the top of `sections` (0 for the empty stack) and the
\* stack is strictly increasing; behind a section that has closed,
\* section_nesting is the size of the section around it; it is 0 whenever
\* the top-level loop of parse() calls parse_block.
C36_NestingBookkeeping ==
    /\ StackOk(parser.section_nesting, parser.sections)
    /\ \A k \in 1..Len(parser.trace) :
          /\ StackOk(parser.trace[k].section_nesting, parser.trace[k].sections)
          /\ ClosedInside(k) =>
                \E e \in {parser.trace[First(LaterOutside(k))]} :
                   /\ e.sections = parser.trace[k].sections
                   /\ e.section_nesting = Last(e.sections)
    /\ pc = "loop" => parser.section_nesting = 0 /\ parser.sections = <<>>
    /\ parser.trace # <<>> =>
          /\ Last(parser.trace).section_nesting = 0
          /\ Last(parser.trace).sections = <<>>

\* "# a", "### a", "## a": the section of size 3 has closed inside the
\* section of size 1, and the header of size 2 was then read with
\* section_nesting 1 and has opened a section inside it
C36_Witness ==
    /\ pc = "loop"
    /\ \E k \in 1..Len(parser.trace) :
          /\ ClosedInside(k)
          /\ parser.trace[k].sections = <<1>>
          /\ parser.trace[First(LaterOutside(k))].kind = "Section"
          /\ \E j \in 1..Len(parser.trace) : parser.trace[j].sections = <<1, 3>>

\* the items of a sequence and their descendants, by the number each has
\* in the order parse_list_item returned them
RECURSIVE ItemNumbers(_)
ItemNumbers(items) ==
    IF items = <<>> THEN <<>>
    ELSE <<Head(items).text>> \o ItemNumbers(Head(items).children)
                             \o ItemNumbers(Tail(items))

\* every child has been returned after the item it is attached to
RECURSIVE ChildrenFollow(_)
ChildrenFollow(item) ==
    \A i \in 1..Len(item.children) :
        /\ item.children[i].text > item.text
        /\ ChildrenFollow(item.children[i])

\* C37: each item parse_list_item has returned within one call of
\* parse_list is exactly once in the list (in its items, in the hierarchy
\* in progress, or below one of these) and at the end exactly once in the
\* List returned; the hierarchy in progress has strictly increasing levels
\* from bottom to top at every step; an item is a child only of an item
\* returned before it.
C37_ItemConservation ==
    \E all \in {ItemNumbers(list.items \o list.list_hierarchy)} :
       /\ Len(all) = list.next - 1
       /\ {all[i] : i \in 1..Len(all)} = 1..(list.next - 1)
       /\ list.state = "done" =>
             /\ list.list_hierarchy = <<>>
             /\ Len(ItemNumbers(list.items)) = Len(list.levels)
       /\ \A i \in 1..Len(list.list_hierarchy) : \A j \in 1..Len(list.list_hierarchy) :
             i < j => list.list_hierarchy[i].level < list.list_hierarchy[j].level
       /\ \A i \in 1..Len(list.items) : ChildrenFollow(list.items[i])
       /\ \A i \in 1..Len(list.list_hierarchy) : ChildrenFollow(list.list_hierarchy[i])

\* levels 0, 1, 2, 0: the list returned has the first item with the second
\* below it and the third below the second, and the fourth item beside it
C37_Witness ==
    /\ list.state = "done"
    /\ list.levels = <<0, 1, 2, 0>>
    /\ ItemNumbers(list.items) = <<1, 2, 3, 4>>
    /\ Len(list.items) = 2
    /\ list.items[1].children[1].children[1].text = 3

----------------------------------------------------------------------------
(* The single-threaded parser of src/parser.rs. Its Parser has the fields  *)
(* index, text, current_char, section_nesting and section_return; the      *)
(* model adds the blocks of the document and `panicked`.                   *)

StOk(p, val) == [p |-> p, ok |-> TRUE, val |-> val]
StErr(p) == [p |-> p, ok |-> FALSE, val |-> <<>>]

\* Parser::new: '\n', ' ', '\n' are appended to the text
st_new(src) ==
    [index |-> 0, text |-> src \o <<LB, " ", LB>>,
     current_char |-> Head(src \o <<LB, " ", LB>>),
     section_nesting |-> 0, section_return |-> None,
     document |-> <<>>, panicked |-> FALSE]

\* self.index += 1; self.current_char = self.text.get(self.index)?.clone()
st_next_char(p) ==
    IF p.index + 1 < Len(p.text)
    THEN [p |-> [p EXCEPT !.index = @ + 1, !.current_char = p.text[p.index + 2]],
          ret |-> Some(p.text[p.index + 2])]
    ELSE [p |-> [p EXCEPT !.index = @ + 1], ret |-> None]

\* Ok with index and current_char set, or Err with the parser as it is
st_revert_to(p, index) ==
    IF index < Len(p.text)
    THEN [p |-> [p EXCEPT !.index = index, !.current_char = p.text[index + 1]],
          ok |-> TRUE]
    ELSE [p |-> p, ok |-> FALSE]

\* self.revert_to(start_index)?; return Err(...): an Err either way
st_revert_err(p, index) == StErr(st_revert_to(p, index).p)

RECURSIVE st_seek_loop(_, _)
st_seek_loop(p, inline) ==
    With(st_next_char(p), LAMBDA n :
        IF n.ret = None THEN n.p
        ELSE IF ~is_whitespace(n.ret[1]) \/ (inline /\ n.p.current_char = LB) THEN n.p
        ELSE st_seek_loop(n.p, inline))

st_seek_inline_whitespace(p) ==
    IF is_whitespace(p.current_char) /\ p.current_char # LB
    THEN st_seek_loop(p, TRUE) ELSE p

st_seek_whitespace(p) ==
    IF is_whitespace(p.current_char) THEN st_seek_loop(p, FALSE) ELSE p

\* parse_option!(self.next_char(), self.index): the parser behind
\* next_char, and whether next_char has returned a character
st_option(p) ==
    With(st_next_char(p), LAMBDA n : [p |-> n.p, ok |-> n.ret # None])

\* loop { match current_char { stop => break, _ => push }; next_char or break }
RECURSIVE st_plain_loop(_, _, _)
st_plain_loop(p, current_char, characters) ==
    IF current_char \in {LB, "*", "_", "~", PIPE}
    THEN [p |-> p, characters |-> characters]
    ELSE With(st_next_char(p), LAMBDA n :
        IF n.ret = None
        THEN [p |-> n.p, characters |-> Append(characters, current_char)]
        ELSE st_plain_loop(n.p, n.ret[1], Append(characters, current_char)))

st_parse_plain_text(p) ==
    With(st_plain_loop(p, p.current_char, <<>>), LAMBDA l :
        IF Len(l.characters) > 0
        THEN StOk(l.p, [kind |-> "Plain", value |-> l.characters])
        ELSE StErr(l.p))

\* the character behind the closing one is taken if there is one
st_close(r, kind, closing, required) ==
    IF required \/ r.p.current_char = closing
    THEN With(st_option(r.p), LAMBDA o :
            IF o.ok THEN StOk(o.p, [kind |-> kind, value |-> r.val]) ELSE StErr(o.p))
    ELSE StOk(r.p, [kind |-> kind, value |-> r.val])

RECURSIVE st_parse_subtext(_)
st_parse_subtext(p) ==
    IF p.current_char = "*"
    THEN With(st_option(p), LAMBDA o1 :
        IF ~o1.ok THEN StErr(o1.p)
        ELSE IF o1.p.current_char = "*"
        THEN With(st_option(o1.p), LAMBDA o2 :
            IF ~o2.ok THEN StErr(o2.p)
            ELSE With(st_parse_subtext(o2.p), LAMBDA sub :
                IF ~sub.ok THEN sub
                ELSE With(st_close(sub, "Bold", "*", FALSE), LAMBDA c1 :
                    IF ~c1.ok \/ sub.p.current_char # "*" THEN c1
                    ELSE st_close([c1 EXCEPT !.val = sub.val], "Bold", "*", FALSE))))
        ELSE With(st_parse_subtext(o1.p), LAMBDA sub :
            IF ~sub.ok THEN sub ELSE st_close(sub, "Italic", "*", TRUE)))
    ELSE IF p.current_char = "_"
    THEN With(st_option(p), LAMBDA o1 :
        IF ~o1.ok THEN StErr(o1.p)
        ELSE With(st_parse_subtext(o1.p), LAMBDA sub :
            IF ~sub.ok THEN sub ELSE st_close(sub, "Underlined", "_", TRUE)))
    ELSE IF p.current_char = "~"
    THEN With(st_option(p), LAMBDA o1 :
        IF ~o1.ok THEN StErr(o1.p)
        ELSE With(st_parse_subtext(o1.p), LAMBDA sub :
            IF ~sub.ok THEN sub ELSE st_close(sub, "Striked", "~", FALSE)))
    ELSE IF p.current_char \in {LB, PIPE} THEN StErr(p)
    ELSE st_parse_plain_text(p)

\* while let Ok(subtext) = self.parse_subtext() { add; if next_char() == None
\* { break }; revert_to(current_index)? }: `failed` is the ? of revert_to
RECURSIVE st_text_loop(_, _)
st_text_loop(p, subtexts) ==
    With(st_parse_subtext(p), LAMBDA sub :
        IF ~sub.ok THEN [p |-> sub.p, subtexts |-> subtexts, failed |-> FALSE]
        ELSE With(st_next_char(sub.p), LAMBDA n :
            IF n.ret = None
            THEN [p |-> n.p, subtexts |-> Append(subtexts, sub.val), failed |-> FALSE]
            ELSE With(st_revert_to(n.p, sub.p.index), LAMBDA r :
                IF ~r.ok
                THEN [p |-> r.p, subtexts |-> Append(subtexts, sub.val), failed |-> TRUE]
                ELSE st_text_loop(r.p, Append(subtexts, sub.val)))))

st_parse_text(p) ==
    With(st_text_loop(p, <<>>), LAMBDA l :
        IF l.failed THEN StErr(l.p)
        ELSE IF l.p.current_char = LB
        THEN With(st_option(l.p), LAMBDA o :
                IF o.ok THEN StOk(o.p, [kind |-> "Text", subtext |-> l.subtexts])
                ELSE StErr(o.p))
        ELSE StOk(l.p, [kind |-> "Text", subtext |-> l.subtexts]))

\* if self.index > self.text.len() { Err } else { Ok(Inline::Text(parse_text()?)) }
st_parse_inline(p) ==
    IF p.index > Len(p.text) THEN StErr(p) ELSE st_parse_text(p)

\* while let Ok(token) = self.parse_inline() { add; seek_inline_whitespace;
\* if a block opener follows { revert_to(start_index)?; break }; revert_to(start_index)? }
RECURSIVE st_paragraph_loop(_, _)
st_paragraph_loop(p, elements) ==
    With(st_parse_inline(p), LAMBDA t :
        IF ~t.ok THEN [p |-> t.p, elements |-> elements, failed |-> FALSE]
        ELSE With(st_seek_inline_whitespace(t.p), LAMBDA w :
             With(st_revert_to(w, t.p.index), LAMBDA r :
                IF ~r.ok
                THEN [p |-> r.p, elements |-> Append(elements, t.val), failed |-> TRUE]
                ELSE IF w.current_char \in {MINUS, HASH, BACKTICK, PIPE}
                THEN [p |-> r.p, elements |-> Append(elements, t.val), failed |-> FALSE]
                ELSE st_paragraph_loop(r.p, Append(elements, t.val)))))

st_parse_paragraph(p) ==
    With(st_paragraph_loop(p, <<>>), LAMBDA l :
        IF ~l.failed /\ Len(l.elements) > 0
        THEN StOk(l.p, [kind |-> "Paragraph", elements |-> l.elements])
        ELSE StErr(l.p))

st_parse_list_item(p) ==
    With(st_seek_inline_whitespace(p), LAMBDA p1 :
        IF p1.current_char # MINUS THEN st_revert_err(p1, p.index)
        ELSE With(st_next_char(p1), LAMBDA n :
            IF n.ret = None THEN st_revert_err(n.p, p.index)
            ELSE With(st_parse_inline(st_seek_inline_whitespace(n.p)), LAMBDA t :
                IF ~t.ok THEN t
                ELSE StOk(t.p, [kind |-> "ListItem", level |-> p1.index - p.index,
                                text |-> t.val, children |-> <<>>]))))

RECURSIVE st_list_loop(_, _, _)
st_list_loop(p, list_hierarchy, items) ==
    With(st_parse_list_item(p), LAMBDA i :
        IF ~i.ok THEN [p |-> i.p, list_hierarchy |-> list_hierarchy, items |-> items]
        ELSE With(push_item(i.val, list_hierarchy, items), LAMBDA r :
            st_list_loop(i.p, r.list_hierarchy, r.items)))

st_parse_list(p) ==
    With(st_list_loop(st_seek_whitespace(p), <<>>, <<>>), LAMBDA l :
        With(l.items \o combine(l.list_hierarchy), LAMBDA items :
            IF Len(items) > 0 THEN StOk(l.p, [kind |-> "List", items |-> items])
            ELSE st_revert_err(l.p, p.index)))

\* while let Ok(element) = self.parse_inline() { add_cell; if '|' { if
\* next_char() == None { break } }; if '\n' { break } }
RECURSIVE st_cells_loop(_, _)
st_cells_loop(p, cells) ==
    With(st_parse_inline(p), LAMBDA t :
        IF ~t.ok THEN [p |-> t.p, cells |-> cells]
        ELSE With(IF t.p.current_char = PIPE THEN st_next_char(t.p)
                  ELSE [p |-> t.p, ret |-> Some(t.p.current_char)], LAMBDA n :
            IF n.ret = None \/ n.p.current_char = LB
            THEN [p |-> n.p, cells |-> Append(cells, t.val)]
            ELSE st_cells_loop(n.p, Append(cells, t.val))))

st_parse_row(p) ==
    With(st_seek_inline_whitespace(p), LAMBDA p1 :
        IF p1.current_char # PIPE THEN st_revert_err(p1, p.index)
        ELSE With(st_next_char(p1), LAMBDA n :
            IF n.ret = None THEN st_revert_err(n.p, p.index)
            ELSE With(st_cells_loop(n.p, <<>>), LAMBDA l :
                IF Len(l.cells) > 0 THEN StOk(l.p, [kind |-> "Row", cells |-> l.cells])
                ELSE st_revert_err(l.p, p.index))))

\* while let Some(char) = self.next_char() { if char == '\n' { break } }
RECURSIVE st_skip_line(_)
st_skip_line(p) ==
    With(st_next_char(p), LAMBDA n :
        IF n.ret = None \/ n.ret = Some(LB) THEN n.p ELSE st_skip_line(n.p))

\* while let Ok(row) = self.parse_row() { add_row; seek_whitespace }
RECURSIVE st_rows_loop(_, _)
st_rows_loop(p, rows) ==
    With(st_parse_row(p), LAMBDA r :
        IF ~r.ok THEN [p |-> r.p, rows |-> rows]
        ELSE st_rows_loop(st_seek_whitespace(r.p), Append(rows, r.val)))

st_parse_table(p) ==
    With(st_parse_row(p), LAMBDA header :
        IF ~header.ok THEN header
        ELSE With(st_seek_whitespace(header.p), LAMBDA w :
             With(IF w.current_char = MINUS THEN st_next_char(w)
                  ELSE [p |-> w, ret |-> Some(PIPE)], LAMBDA n :
                IF n.ret # Some(PIPE) THEN st_revert_err(n.p, header.p.index)
                ELSE With(st_rows_loop(st_seek_whitespace(st_skip_line(n.p)), <<>>),
                          LAMBDA l :
                    StOk(l.p, [kind |-> "Table", header |-> header.val,
                               rows |-> l.rows])))))

\* while let Some(next_char) = self.next_char() { if next_char == '#' { size += 1 }
\* else { break } }: size is a u8
RECURSIVE st_hash_loop(_, _)
st_hash_loop(p, size) ==
    With(st_next_char(p), LAMBDA n :
        IF n.ret # Some(HASH) THEN [p |-> n.p, size |-> size]
        ELSE IF size = U8_MAX
        THEN IF overflow_checks
             THEN [p |-> [n.p EXCEPT !.panicked = TRUE], size |-> size]
             ELSE st_hash_loop(n.p, 0)
        ELSE st_hash_loop(n.p, size + 1))

\* self.section_nesting -= 1, on a u8
st_close_section(p) ==
    IF p.section_nesting > 0 THEN [p EXCEPT !.section_nesting = @ - 1]
    ELSE IF overflow_checks THEN [p EXCEPT !.panicked = TRUE]
    ELSE [p EXCEPT !.section_nesting = U8_MAX]

RECURSIVE st_parse_block(_)
RECURSIVE st_parse_section(_)
RECURSIVE st_section_loop(_, _)

\* while let Ok(block) = self.parse_block() { section.add_element(block) }
st_section_loop(p, elements) ==
    With(st_parse_block(p), LAMBDA b :
        IF b.ok /\ ~b.p.panicked THEN st_section_loop(b.p, Append(elements, b.val))
        ELSE [p |-> b.p, elements |-> elements])

st_parse_section(p) ==
    With(st_seek_whitespace(p), LAMBDA p1 :
        IF p1.current_char # HASH THEN st_revert_err(p1, p.index)
        ELSE With(st_hash_loop(p1, 1), LAMBDA h :
            IF h.p.panicked THEN StErr(h.p)
            ELSE IF h.size <= h.p.section_nesting \/ ~is_whitespace(h.p.current_char)
            THEN st_revert_err(IF h.size <= h.p.section_nesting
                               THEN [h.p EXCEPT !.section_return = Some(h.size)]
                               ELSE h.p, p.index)
            ELSE With(st_parse_inline(st_seek_inline_whitespace(h.p)), LAMBDA header :
                IF ~header.ok THEN header
                ELSE With(st_section_loop([header.p EXCEPT !.section_nesting = h.size],
                                          <<>>), LAMBDA body :
                    IF body.p.panicked THEN StErr(body.p)
                    ELSE With(st_close_section(body.p), LAMBDA c :
                        IF c.panicked THEN StErr(c)
                        ELSE StOk(c, [kind |-> "Section", size |-> h.size,
                                      header |-> header.val,
                                      elements |-> body.elements]))))))

\* parse_block behind parse_section: list, table, paragraph
st_after_section(p) ==
    With(st_parse_list(p), LAMBDA l :
    IF l.ok THEN l ELSE
    With(st_parse_table(l.p), LAMBDA t :
    IF t.ok THEN t ELSE
    With(st_parse_paragraph(t.p), LAMBDA g :
    IF g.ok THEN g ELSE StErr(g.p))))

st_parse_block(p) ==
    IF p.section_return # None /\ p.section_return[1] <= p.section_nesting
    THEN StErr(p)
    ELSE With(st_parse_section([p EXCEPT !.section_return = None]), LAMBDA s :
        IF s.ok \/ s.p.panicked THEN s
        ELSE IF s.p.section_return # None THEN StErr(s.p)
        ELSE st_after_section(s.p))

\* the lines the sources of the single-threaded parser are built from: the
\* headers, a text line, a list item, a table row, formatted text, a hash
\* run that is no header
StLines ==
    { Header(1), Header(2), Header(3), TextLn,
      <<MINUS, " ", "a", LB>>, <<PIPE, "a", PIPE, LB>>,
      <<"*", "a", "*", LB>>, <<HASH, "a", LB>> }

StSources ==
    {Flatten(ls) : ls \in SeqsUpTo(MaxLines, StLines)} \ {<<>>}

InitSt ==
    /\ \E src \in StSources : parser = st_new(src)
    /\ overflow_checks = TRUE
    /\ position = None
    /\ lastOp = Op("new", 0, TRUE, 0)
    /\ pc = "loop"
    /\ list = NoList
    /\ scheduler = NoScheduler
    /\ render = NoRender

\* an iteration of while self.index < self.text.len() { if let Ok(token) =
\* self.parse_block() { document.add_element(token) } }
\* `turn` of lastOp alternates with the iterations, so that an iteration
\* that leaves the parser as it is is a step all the same
StParseStep ==
    /\ pc = "loop"
    /\ parser.index < Len(parser.text)
    /\ \E r \in {st_parse_block(parser)} :
          /\ parser' = IF r.ok /\ ~r.p.panicked
                       THEN [r.p EXCEPT !.document = Append(@, r.val)]
                       ELSE r.p
          /\ pc' = IF r.p.panicked THEN "panicked" ELSE "loop"
          /\ lastOp' = [op |-> "parse_block", arg |-> parser.index, ok |-> r.ok,
                        err_index |-> 0,
                        turn |-> IF lastOp.op = "parse_block"
                                 THEN 1 - lastOp.turn ELSE 0]
    /\ UNCHANGED <<overflow_checks, position, list, scheduler, render>>

\* the loop ends and parse returns the document
StParseReturn ==
    /\ pc = "loop"
    /\ ~(parser.index < Len(parser.text))
    /\ pc' = "done"
    /\ lastOp' = Op("parse", parser.index, TRUE, 0)
    /\ UNCHANGED <<parser, overflow_checks, position, list, scheduler, render>>

NextSt ==
    \/ StParseStep
    \/ StParseReturn

SpecSt == InitSt /\ [][NextSt]_vars

\* the loop of parse goes on while it can
SpecStFair == SpecSt /\ WF_vars(NextSt)

\* C35: for every finite input Parser::parse of src/parser.rs terminates,
\* also when the headers of the input skip or return across levels: the
\* loop of parse comes to its end.
C35_Termination == <>(pc = "done")

\* every iteration of the top-level loop adds a block or advances the cursor
C35_IterationProgress ==
    (lastOp.op = "parse_block") => (lastOp.ok \/ parser.index > lastOp.arg)

\* the top-level loop is left with a signal it can never clear
StPending ==
    /\ parser.section_return # None
    /\ parser.section_return[1] <= parser.section_nesting

\* an iteration that is not refused for a pending section_return adds a
\* block or advances the cursor
C35_ProgressUnlessPending ==
    (lastOp.op = "parse_block" /\ ~StPending) =>
        (lastOp.ok \/ parser.index > lastOp.arg)
====
